---- MODULE Spec2Model ----
(***************************************************************************)
(* Model of the AI gateway (call_groq_ai), the response parsers and the    *)
(* AI handlers of cogni-icp-backend/src/lib.rs.                            *)
(*                                                                         *)
(* Strings are sequences of one-character strings.  An AI reply is a       *)
(* sequence of tokens: the characters [ ] " , space and newline, the       *)
(* letter x, plus a few tokens that each stand for a fixed stretch of JSON *)
(* text (the head of an object up to its first array, and so on).          *)
(***************************************************************************)
EXTENDS Integers, Sequences, FiniteSets, TLC

VARIABLES
    pc,        \* position of the call_groq_ai invocation: idle/request/await/done
    prompt,    \* the prompt call_groq_ai was called with
    attempt,   \* loop variable of the retry loop (1..=max_retries)
    requests,  \* number of outbound http_request calls issued
    history,   \* the transport outcomes received so far, in order
    result,    \* what call_groq_ai returned
    tutors,    \* TUTORS: id -> Tutor
    sessions,  \* CHAT_SESSIONS: session id -> ChatSession
    users,     \* USERS: principal -> User
    messages,  \* CHAT_MESSAGES: session id -> list of ChatMessage
    learning_metrics,  \* LEARNING_METRICS: id -> LearningMetrics
    learning_progress,    \* LEARNING_PROGRESS: id -> LearningProgress
    connection_requests,  \* CONNECTION_REQUESTS: id -> ConnectionRequest
    connections,          \* CONNECTIONS: id -> UserConnection
    study_groups,         \* STUDY_GROUPS: id -> StudyGroup
    group_memberships,    \* GROUP_MEMBERSHIPS: id -> GroupMembership
    now,       \* ic_cdk::api::time(): the same for all calls of one round
    next_ids,  \* the ID allocator: entity kind -> last id handed out
    pending,   \* the calls suspended at an await, with their local variables
    call,      \* the handler call that ran last: op, caller, arguments
    reply      \* what that handler returned

vars == <<pc, prompt, attempt, requests, history, result,
          tutors, sessions, users, messages, learning_metrics, learning_progress,
          connection_requests, connections, study_groups, group_memberships,
          now, next_ids, pending, call, reply>>

gatewayVars == <<pc, prompt, attempt, requests, history, result>>
socialVars == <<connection_requests, connections, study_groups, group_memberships>>
tableVars == <<tutors, sessions, users, messages, learning_metrics, learning_progress,
               socialVars>>
storeVars == <<tableVars, now, next_ids, pending>>
handlerVars == <<call, reply>>

----------------------------------------------------------------------------
(* Bounds *)

MaxTextLen == 2     \* longest AI reply enumerated token by token
MaxTags == 4        \* most expertise tags of a tutor
MaxTopicLen == 2    \* longest topic string

----------------------------------------------------------------------------
(* Text primitives *)

LB == "["
RB == "]"
QUOTE == "\""
COMMA == ","
SPACE == " "
NEWLINE == "\n"
LETTER == "x"

\* Tokens standing for JSON text of an object (or of a part of one).
SuggestionTokens == {"{suggestion1}", "{suggestion2}"}
ValidationHead == "{validation:"
OutlineHead == "{outline:"
OutlineMid == ",outline-mid:"
ObjectEnd == "}"

\* The fixed text around the prompt in the canned reply of call_groq_ai.
FallbackHead == "I apologize, but I'm experiencing technical difficulties with my AI service right now. However, I can still help you with your question: \""
FallbackTail == "\" Please try asking me again in a moment, or feel free to rephrase your question."

BasicChars == {LB, RB, QUOTE, COMMA, SPACE, NEWLINE}

\* Tokens whose text contains a double quote (JSON keys are quoted).
HasQuote(tok) ==
    tok \in {QUOTE, ValidationHead, OutlineHead, OutlineMid, FallbackHead, FallbackTail}
            \cup SuggestionTokens

IsWhitespace(tok) == tok \in {SPACE, NEWLINE}

\* The characters serde_json accepts inside a string literal: anything but
\* a quote, a backslash or a control character.
IsStringChar(tok) == tok \in {LB, RB, COMMA, SPACE, LETTER, ObjectEnd}

RECURSIVE SeqsUpTo(_, _)
SeqsUpTo(S, n) ==
    IF n = 0 THEN {<<>>}
    ELSE LET shorter == SeqsUpTo(S, n - 1)
         IN shorter \cup {Append(s, c) : s \in {t \in shorter : Len(t) = n - 1}, c \in S}

Min(a, b) == IF a < b THEN a ELSE b

\* str::trim
RECURSIVE TrimStart(_)
TrimStart(s) ==
    IF s # <<>> /\ IsWhitespace(Head(s)) THEN TrimStart(Tail(s)) ELSE s

RECURSIVE TrimEnd(_)
TrimEnd(s) ==
    IF s # <<>> /\ IsWhitespace(s[Len(s)]) THEN TrimEnd(SubSeq(s, 1, Len(s) - 1)) ELSE s

Trim(s) == TrimEnd(TrimStart(s))

\* str::lines: split at newlines; a final newline does not start a line.
RECURSIVE SplitLines(_, _, _)
SplitLines(s, i, cur) ==
    IF i > Len(s) THEN (IF cur = <<>> THEN <<>> ELSE <<cur>>)
    ELSE IF s[i] = NEWLINE THEN <<cur>> \o SplitLines(s, i + 1, <<>>)
    ELSE SplitLines(s, i + 1, Append(cur, s[i]))

Lines(s) == SplitLines(s, 1, <<>>)

\* [&str]::join
RECURSIVE Join(_, _)
Join(parts, sep) ==
    IF parts = <<>> THEN <<>>
    ELSE IF Len(parts) = 1 THEN parts[1]
    ELSE parts[1] \o sep \o Join(Tail(parts), sep)

ContainsTok(s, tok) == \E i \in 1..Len(s) : s[i] = tok

\* str::find / str::rfind of a character: 0 stands for None.
Find(s, tok) ==
    IF ContainsTok(s, tok)
    THEN CHOOSE i \in 1..Len(s) : s[i] = tok /\ \A j \in 1..(i - 1) : s[j] # tok
    ELSE 0

RFind(s, tok) ==
    IF ContainsTok(s, tok)
    THEN CHOOSE i \in 1..Len(s) : s[i] = tok /\ \A j \in (i + 1)..Len(s) : s[j] # tok
    ELSE 0

\* str::to_lowercase on the letters of the model
LowerChar(c) == IF c = "A" THEN "a" ELSE IF c = "B" THEN "b" ELSE c

to_lowercase(s) == [i \in 1..Len(s) |-> LowerChar(s[i])]

\* str::contains(&str)
Contains(s, sub) ==
    \E i \in 1..(Len(s) - Len(sub) + 1) : SubSeq(s, i, i + Len(sub) - 1) = sub

----------------------------------------------------------------------------
(* serde_json::from_str on token sequences.  A parse result is a record    *)
(* [ok, val]; ok = FALSE stands for Err(_).                                *)

ParseFail == [ok |-> FALSE, val |-> <<>>]
ParseOk(v) == [ok |-> TRUE, val |-> v]

TokAt(s, i) == IF i \in 1..Len(s) THEN s[i] ELSE "<eof>"

\* skip JSON whitespace from position i on
RECURSIVE SkipWs(_, _)
SkipWs(s, i) ==
    IF i <= Len(s) /\ IsWhitespace(s[i]) THEN SkipWs(s, i + 1) ELSE i

\* end of the string literal whose opening quote is at i - 1: the position
\* of the closing quote, or 0 when the literal is not closed properly
RECURSIVE StringEnd(_, _)
StringEnd(s, i) ==
    IF i > Len(s) THEN 0
    ELSE IF s[i] = QUOTE THEN i
    ELSE IF IsStringChar(s[i]) THEN StringEnd(s, i + 1)
    ELSE 0

\* a JSON string literal starting at i: [ok, val, next]
ParseStringAt(s, i) ==
    IF TokAt(s, i) # QUOTE THEN [ok |-> FALSE, val |-> <<>>, next |-> i]
    ELSE LET e == StringEnd(s, i + 1)
         IN IF e = 0 THEN [ok |-> FALSE, val |-> <<>>, next |-> i]
            ELSE [ok |-> TRUE, val |-> SubSeq(s, i + 1, e - 1), next |-> e + 1]

\* a JSON array of string literals starting at i: [ok, val, next]
RECURSIVE StringElements(_, _, _)
StringElements(s, i, acc) ==
    LET el == ParseStringAt(s, i)
        k == SkipWs(s, el.next)
    IN IF ~el.ok THEN [ok |-> FALSE, val |-> <<>>, next |-> i]
       ELSE IF TokAt(s, k) = COMMA
            THEN StringElements(s, SkipWs(s, k + 1), Append(acc, el.val))
       ELSE IF TokAt(s, k) = RB
            THEN [ok |-> TRUE, val |-> Append(acc, el.val), next |-> k + 1]
       ELSE [ok |-> FALSE, val |-> <<>>, next |-> i]

ParseStringArrayAt(s, i) ==
    IF TokAt(s, i) # LB THEN [ok |-> FALSE, val |-> <<>>, next |-> i]
    ELSE LET j == SkipWs(s, i + 1)
         IN IF TokAt(s, j) = RB THEN [ok |-> TRUE, val |-> <<>>, next |-> j + 1]
            ELSE StringElements(s, j, <<>>)

\* the whole input must be consumed, trailing whitespace aside
Complete(s, r) ==
    IF r.ok /\ SkipWs(s, r.next) > Len(s) THEN ParseOk(r.val) ELSE ParseFail

\* serde_json::from_str::<Vec<String>>
ParseVecString(s) == Complete(s, ParseStringArrayAt(s, SkipWs(s, 1)))

\* serde_json::from_str::<String>
ParseString(s) == Complete(s, ParseStringAt(s, SkipWs(s, 1)))

----------------------------------------------------------------------------
(* Typed parsers: TopicSuggestion, TopicValidation, CourseOutline.         *)
(* Floats are kept in tenths: confidence 7 stands for 0.7.                 *)

Str(tok) == <<tok>>

\* the TopicSuggestion a suggestion token is the JSON text of
SuggestionOf(tok) ==
    [topic |-> Str(tok), description |-> Str("described"),
     difficulty |-> Str("beginner"), expertise_area |-> Str("area")]

\* one TopicSuggestion at i: a JSON object, or (serde's visit_seq) an
\* array of exactly four strings in field order
ParseSuggestionAt(s, i) ==
    IF TokAt(s, i) \in SuggestionTokens
    THEN [ok |-> TRUE, val |-> SuggestionOf(s[i]), next |-> i + 1]
    ELSE LET r == ParseStringArrayAt(s, i)
         IN IF r.ok /\ Len(r.val) = 4
            THEN [ok |-> TRUE,
                  val |-> [topic |-> r.val[1], description |-> r.val[2],
                           difficulty |-> r.val[3], expertise_area |-> r.val[4]],
                  next |-> r.next]
            ELSE [ok |-> FALSE, val |-> <<>>, next |-> i]

RECURSIVE SuggestionElements(_, _, _)
SuggestionElements(s, i, acc) ==
    LET el == ParseSuggestionAt(s, i)
        k == SkipWs(s, el.next)
    IN IF ~el.ok THEN [ok |-> FALSE, val |-> <<>>, next |-> i]
       ELSE IF TokAt(s, k) = COMMA
            THEN SuggestionElements(s, SkipWs(s, k + 1), Append(acc, el.val))
       ELSE IF TokAt(s, k) = RB
            THEN [ok |-> TRUE, val |-> Append(acc, el.val), next |-> k + 1]
       ELSE [ok |-> FALSE, val |-> <<>>, next |-> i]

ParseSuggestionArrayAt(s, i) ==
    IF TokAt(s, i) # LB THEN [ok |-> FALSE, val |-> <<>>, next |-> i]
    ELSE LET j == SkipWs(s, i + 1)
         IN IF TokAt(s, j) = RB THEN [ok |-> TRUE, val |-> <<>>, next |-> j + 1]
            ELSE SuggestionElements(s, j, <<>>)

\* serde_json::from_str::<Vec<TopicSuggestion>>
ParseVecTopicSuggestion(s) == Complete(s, ParseSuggestionArrayAt(s, SkipWs(s, 1)))

\* serde_json::from_str::<TopicValidation>: the head token carries
\* is_relevant, confidence and reasoning, the array that follows is
\* suggested_alternatives
ParseTopicValidation(s) ==
    LET i == SkipWs(s, 1)
        alts == ParseStringArrayAt(s, SkipWs(s, i + 1))
        e == SkipWs(s, alts.next)
    IN IF TokAt(s, i) = ValidationHead /\ alts.ok /\ TokAt(s, e) = ObjectEnd
          /\ SkipWs(s, e + 1) > Len(s)
       THEN ParseOk([is_relevant |-> FALSE, confidence |-> 9,
                     reasoning |-> Str("reasoned"),
                     suggested_alternatives |-> alts.val])
       ELSE ParseFail

\* serde_json::from_str::<CourseOutline>: head token (title, description),
\* learning_objectives array, middle token (estimated_duration,
\* difficulty_level), modules array (only the empty one is in the alphabet)
ParseCourseOutline(s) ==
    LET i == SkipWs(s, 1)
        objs == ParseStringArrayAt(s, SkipWs(s, i + 1))
        m == SkipWs(s, objs.next)
        mods == ParseStringArrayAt(s, SkipWs(s, m + 1))
        e == SkipWs(s, mods.next)
    IN IF TokAt(s, i) = OutlineHead /\ objs.ok /\ TokAt(s, m) = OutlineMid
          /\ mods.ok /\ mods.val = <<>> /\ TokAt(s, e) = ObjectEnd
          /\ SkipWs(s, e + 1) > Len(s)
       THEN ParseOk([title |-> Str("parsed title"), description |-> Str("parsed"),
                     learning_objectives |-> objs.val,
                     estimated_duration |-> Str("2 weeks"),
                     difficulty_level |-> Str("advanced"),
                     modules |-> <<>>])
       ELSE ParseFail

----------------------------------------------------------------------------
(* AI gateway: call_groq_ai                                                *)

\* a retry budget one larger than the source's
max_retries_four == 3 + 1

max_retries == 3

\* Result<String, String>
Ok(text) == [kind |-> "Ok", text |-> text, err |-> "", status |-> 0]
Err(msg, status) == [kind |-> "Err", text |-> <<>>, err |-> msg, status |-> status]
NoResult == [kind |-> "None", text |-> <<>>, err |-> "", status |-> 0]

\* What one http_request(..).await can come back with.
\*   Err((code, message)): transport failure; consensus tells whether the
\*     message contains "SysTransient" or "consensus"
\*   Ok((response,)): a status and a body; shape is what the body turns out
\*     to be when it is decoded
NoText == <<>>
TransportErr(consensus) ==
    [t |-> "err", consensus |-> consensus, status |-> 0, shape |-> "none", content |-> NoText]
HttpResponse(status, shape, content) ==
    [t |-> "ok", consensus |-> FALSE, status |-> status, shape |-> shape, content |-> content]

BodyShapes == {"invalid_utf8", "invalid_json", "no_content", "completion"}
ErrorStatuses == {429, 500}

FallbackReply(p) == <<FallbackHead>> \o p \o <<FallbackTail>>

\* One iteration of the retry loop, from the match on the awaited
\* http_request on: either the function returns (ret) with res, or the
\* loop goes on to its next iteration.
Continue == [ret |-> FALSE, res |-> NoResult]
Return(res) == [ret |-> TRUE, res |-> res]

\* GroqStep with the consensus check deciding: only consensus errors retry
GroqStep_RetryConsensusOnly(att, o) ==
    IF o.t = "ok"
    THEN IF o.status = 200
         THEN IF o.shape = "invalid_utf8"
                 THEN Return(Err("Failed to parse response body", 0))
              ELSE IF o.shape = "invalid_json"
                 THEN Return(Err("Failed to parse Groq response", 0))
              ELSE IF o.shape = "completion"
                 THEN Return(Ok(o.content))
              ELSE Return(Err("Groq API returned no valid content", 0))
         ELSE IF att = max_retries
                 THEN Return(Err("Groq API error", o.status))
              ELSE Continue
    ELSE IF att < max_retries /\ o.consensus THEN Continue
         ELSE Return(Err("HTTP request failed after 3 attempts", 0))

\* GroqStep that gives up on the first non-200 status
GroqStep_NoStatusRetry(att, o) ==
    IF o.t = "ok"
    THEN IF o.status = 200
         THEN IF o.shape = "invalid_utf8"
                 THEN Return(Err("Failed to parse response body", 0))
              ELSE IF o.shape = "invalid_json"
                 THEN Return(Err("Failed to parse Groq response", 0))
              ELSE IF o.shape = "completion"
                 THEN Return(Ok(o.content))
              ELSE Return(Err("Groq API returned no valid content", 0))
         ELSE Return(Err("Groq API error", o.status))
    ELSE IF att < max_retries THEN Continue
         ELSE Return(Err("HTTP request failed after 3 attempts", 0))

GroqStep(att, o) ==
    IF o.t = "ok"
    THEN IF o.status = 200
         THEN IF o.shape = "invalid_utf8"
                 THEN Return(Err("Failed to parse response body", 0))
              ELSE IF o.shape = "invalid_json"
                 THEN Return(Err("Failed to parse Groq response", 0))
              ELSE IF o.shape = "completion"
                 THEN Return(Ok(o.content))
              ELSE Return(Err("Groq API returned no valid content", 0))
         ELSE IF att = max_retries
                 THEN Return(Err("Groq API error", o.status))
              ELSE Continue
    ELSE IF att < max_retries /\ o.consensus THEN Continue
         ELSE IF att < max_retries THEN Continue
         ELSE Return(Err("HTTP request failed after 3 attempts", 0))

\* The whole call against a transport that answers the successive requests
\* with the outcomes of script: [res, used]; res is NoResult when the
\* script ends while a request is outstanding.
RECURSIVE GroqLoop(_, _, _)
GroqLoop(p, att, script) ==
    IF att > max_retries THEN [res |-> Ok(FallbackReply(p)), used |-> att - 1]
    ELSE IF Len(script) < att THEN [res |-> NoResult, used |-> att]
    ELSE LET step == GroqStep(att, script[att])
         IN IF step.ret THEN [res |-> step.res, used |-> att]
            ELSE GroqLoop(p, att + 1, script)

call_groq_ai(p, script) == GroqLoop(p, 1, script)

----------------------------------------------------------------------------
(* Response parser helpers.  A handler result is [kind, val, err, tried]:  *)
(* kind is Ok, Err or Trap (a panic, which the host turns into a rejected  *)
(* call); tried lists the parsing strategies that ran, in order ("slice"   *)
(* runs from its search for '[' on).                                       *)

ROk(v) == [kind |-> "Ok", val |-> v, err |-> "", tried |-> <<>>]
RErr(msg) == [kind |-> "Err", val |-> <<>>, err |-> msg, tried |-> <<>>]
NoReply == [kind |-> "None", val |-> <<>>, err |-> "", tried |-> <<>>]
Tried(r, strategies) == [r EXCEPT !.tried = strategies]

\* Vec<String>::join(", ")
JoinTags(expertise) == Join(expertise, Str(", "))

RECURSIVE Take(_, _)
Take(s, n) == IF n = 0 \/ s = <<>> THEN <<>> ELSE <<Head(s)>> \o Take(Tail(s), n - 1)

\* generate_topic_suggestions whose fallback forgets take(3)
generate_topic_suggestions_all_tags(tutor_data, gw) ==
    IF gw.kind = "Err" THEN RErr(gw.err)
    ELSE LET parsed == ParseVecTopicSuggestion(gw.text)
         IN IF parsed.ok THEN ROk(Take(parsed.val, 3))
            ELSE ROk([i \in 1..Len(tutor_data.expertise) |->
                        [topic |-> Str("Introduction to ") \o tutor_data.expertise[i],
                         description |-> Str("Learn the basics of ") \o tutor_data.expertise[i],
                         difficulty |-> Str("beginner"),
                         expertise_area |-> tutor_data.expertise[i]]])

\* generate_topic_suggestions after the await: gw is what call_groq_ai returned
generate_topic_suggestions(tutor_data, gw) ==
    IF gw.kind = "Err" THEN RErr(gw.err)
    ELSE LET parsed == ParseVecTopicSuggestion(gw.text)
         IN IF parsed.ok THEN ROk(Take(parsed.val, 3))
            ELSE ROk([i \in 1..Min(3, Len(tutor_data.expertise)) |->
                        [topic |-> Str("Introduction to ") \o tutor_data.expertise[i],
                         description |-> Str("Learn the basics of ") \o tutor_data.expertise[i],
                         difficulty |-> Str("beginner"),
                         expertise_area |-> tutor_data.expertise[i]]])

\* validate_topic whose fallback compares without lower-casing the tag
validate_topic_case_sensitive(tutor_data, topic, gw) ==
    IF gw.kind = "Err" THEN RErr(gw.err)
    ELSE LET parsed == ParseTopicValidation(gw.text)
             is_relevant == \E i \in 1..Len(tutor_data.expertise) :
                                Contains(to_lowercase(topic), tutor_data.expertise[i])
         IN IF parsed.ok THEN ROk(parsed.val)
            ELSE ROk([is_relevant |-> is_relevant,
                      confidence |-> IF is_relevant THEN 7 ELSE 3,
                      reasoning |-> Str("Fallback validation based on keyword matching"),
                      suggested_alternatives |->
                          IF is_relevant THEN <<>> ELSE tutor_data.expertise])

\* validate_topic after the await
validate_topic(tutor_data, topic, gw) ==
    IF gw.kind = "Err" THEN RErr(gw.err)
    ELSE LET parsed == ParseTopicValidation(gw.text)
             is_relevant == \E i \in 1..Len(tutor_data.expertise) :
                                Contains(to_lowercase(topic),
                                         to_lowercase(tutor_data.expertise[i]))
         IN IF parsed.ok THEN ROk(parsed.val)
            ELSE ROk([is_relevant |-> is_relevant,
                      confidence |-> IF is_relevant THEN 7 ELSE 3,
                      reasoning |-> Str("Fallback validation based on keyword matching"),
                      suggested_alternatives |->
                          IF is_relevant THEN <<>> ELSE tutor_data.expertise])

\* generate_course_outline whose fallback numbers its module from the clock
generate_course_outline_clock_id(tutor_data, topic, user_preferences, gw) ==
    IF gw.kind = "Err" THEN RErr(gw.err)
    ELSE LET parsed == ParseCourseOutline(gw.text)
         IN IF parsed.ok THEN ROk(parsed.val)
            ELSE ROk([title |-> Str("Course on ") \o topic,
                      description |-> Str("A comprehensive course about ") \o topic,
                      learning_objectives |-> <<Str("Understand the basics of ") \o topic>>,
                      estimated_duration |-> Str("4 weeks"),
                      difficulty_level |-> user_preferences.difficulty_level,
                      modules |-> <<[id |-> now, title |-> Str("Introduction"),
                                     description |-> Str("Introduction to ") \o topic,
                                     order |-> 1,
                                     content |-> Str("Learn the fundamentals of ") \o topic,
                                     status |-> Str("pending")]>>])

\* generate_course_outline whose fallback has a fixed difficulty level
generate_course_outline_fixed_level(tutor_data, topic, user_preferences, gw) ==
    IF gw.kind = "Err" THEN RErr(gw.err)
    ELSE LET parsed == ParseCourseOutline(gw.text)
         IN IF parsed.ok THEN ROk(parsed.val)
            ELSE ROk([title |-> Str("Course on ") \o topic,
                      description |-> Str("A comprehensive course about ") \o topic,
                      learning_objectives |-> <<Str("Understand the basics of ") \o topic>>,
                      estimated_duration |-> Str("4 weeks"),
                      difficulty_level |-> Str("intermediate"),
                      modules |-> <<[id |-> 1, title |-> Str("Introduction"),
                                     description |-> Str("Introduction to ") \o topic,
                                     order |-> 1,
                                     content |-> Str("Learn the fundamentals of ") \o topic,
                                     status |-> Str("pending")]>>])

\* generate_course_outline after the await
generate_course_outline(tutor_data, topic, user_preferences, gw) ==
    IF gw.kind = "Err" THEN RErr(gw.err)
    ELSE LET parsed == ParseCourseOutline(gw.text)
         IN IF parsed.ok THEN ROk(parsed.val)
            ELSE ROk([title |-> Str("Course on ") \o topic,
                      description |-> Str("A comprehensive course about ") \o topic,
                      learning_objectives |-> <<Str("Understand the basics of ") \o topic>>,
                      estimated_duration |-> Str("4 weeks"),
                      difficulty_level |-> user_preferences.difficulty_level,
                      modules |-> <<[id |-> 1, title |-> Str("Introduction"),
                                     description |-> Str("Introduction to ") \o topic,
                                     order |-> 1,
                                     content |-> Str("Learn the fundamentals of ") \o topic,
                                     status |-> Str("pending")]>>])

\* the five templated titles of generate_course_modules
FallbackModules(topic) ==
    << Str("Introduction to ") \o topic,
       topic \o Str(" Fundamentals"),
       Str("Advanced ") \o topic \o Str(" Concepts"),
       topic \o Str(" Applications"),
       topic \o Str(" Mastery") >>

\* the filter of the "clean the response" strategy
KeepLine(line) ==
    LET trimmed == Trim(line)
    IN \/ (trimmed # <<>> /\ Head(trimmed) = LB)
       \/ (trimmed # <<>> /\ Head(trimmed) = QUOTE)
       \/ \E i \in 1..Len(trimmed) : HasQuote(trimmed[i])

RECURSIVE FilterLines(_)
FilterLines(lines) ==
    IF lines = <<>> THEN <<>>
    ELSE (IF KeepLine(Head(lines)) THEN <<Head(lines)>> ELSE <<>>) \o FilterLines(Tail(lines))

CleanResponse(ai_response) == Join(FilterLines(Lines(ai_response)), Str(NEWLINE))

\* the per-line extraction of the last strategy
RECURSIVE LineTitles(_)
LineTitles(lines) ==
    IF lines = <<>> THEN <<>>
    ELSE LET trimmed == Trim(Head(lines))
             quoted == trimmed # <<>> /\ Head(trimmed) = QUOTE
                       /\ trimmed[Len(trimmed)] = QUOTE
             title == ParseString(trimmed)
         IN (IF quoted /\ title.ok THEN <<title.val>> ELSE <<>>) \o LineTitles(Tail(lines))

\* the final emptiness check of generate_course_modules
NonEmptyTitles(titles, strategies) ==
    IF titles = <<>> THEN Tried(RErr("No valid modules generated from AI response"), strategies)
    ELSE Tried(ROk(titles), strategies)

\* the "extract JSON from wrappers" strategy, entered when '[' is at start
ExtractSlice(ai_response, start) ==
    LET end == RFind(ai_response, RB)
        json_part == SubSeq(ai_response, start, end)
        parsed == ParseVecString(json_part)
        strategies == <<"direct", "clean", "slice">>
    IN IF end = 0
          THEN Tried(RErr("Could not find closing bracket in AI response"), strategies)
       ELSE IF end + 1 < start
          THEN Tried([RErr("slice index starts after its end") EXCEPT !.kind = "Trap"], strategies)
       ELSE IF parsed.ok THEN NonEmptyTitles(parsed.val, strategies)
       ELSE Tried(RErr("Failed to parse extracted JSON"), strategies)

\* the per-line strategy and its own emptiness check
ExtractLines(ai_response) ==
    LET titles == LineTitles(Lines(ai_response))
        strategies == <<"direct", "clean", "slice", "lines">>
    IN IF titles = <<>>
          THEN Tried(RErr("Could not extract any valid module titles from AI response"), strategies)
       ELSE NonEmptyTitles(titles, strategies)

\* the parsing strategies of generate_course_modules
ParseModuleTitles(ai_response) ==
    LET direct == ParseVecString(ai_response)
        cleaned == ParseVecString(CleanResponse(ai_response))
        start == Find(ai_response, LB)
    IN IF direct.ok THEN NonEmptyTitles(direct.val, <<"direct">>)
       ELSE IF cleaned.ok THEN NonEmptyTitles(cleaned.val, <<"direct", "clean">>)
       ELSE IF start # 0 THEN ExtractSlice(ai_response, start)
       ELSE ExtractLines(ai_response)

\* generate_course_modules after the await
ModulesFromGateway(topic, gw) ==
    IF gw.kind = "Err" THEN ROk(FallbackModules(topic))
    ELSE ParseModuleTitles(gw.text)

----------------------------------------------------------------------------
(* Prompts: the format! templates, as token sequences                      *)

TestPrompt == Str("Say 'Hello from Groq!' in exactly 5 words.")

SuggestionsPrompt(tutor) ==
    Str("Expertise: ") \o JoinTags(tutor.expertise) \o Str(". Style: ")
    \o tutor.teaching_style \o Str(". Personality: ") \o tutor.personality
    \o Str(". Suggest 3 learning topics as JSON array")

TopicSuggestionsPrompt(tutor_data) ==
    Str("Generate 3 topic suggestions for a tutor with expertise in: ")
    \o JoinTags(tutor_data.expertise) \o Str(" Teaching style: ")
    \o tutor_data.teaching_style \o Str(" Return JSON array")

ValidationPrompt(tutor_data, topic) ==
    Str("Evaluate if the topic '") \o topic
    \o Str("' is relevant to a tutor with expertise in: ")
    \o JoinTags(tutor_data.expertise) \o Str(" Return ONLY the JSON object.")

OutlinePrompt(topic, user_preferences) ==
    Str("Create a course outline on '") \o topic \o Str("' for ")
    \o user_preferences.learning_style \o Str(" learning at ")
    \o user_preferences.difficulty_level \o Str(" level.")

ModulesPrompt(session, tutor) ==
    Str("Generate 5 learning module titles for teaching '") \o session.topic
    \o Str("'. Tutor expertise: ") \o JoinTags(tutor.expertise)
    \o Str(". Teaching style: ") \o tutor.teaching_style
    \o Str(". Personality: ") \o tutor.personality \o Str(".")

WelcomePrompt(tutor_data, topic) ==
    Str("You are ") \o tutor_data.name \o Str(" an AI tutor with expertise in ")
    \o JoinTags(tutor_data.expertise) \o Str(". Your teaching style is ")
    \o tutor_data.teaching_style \o Str(" and your personality is ")
    \o tutor_data.personality \o Str(". Write a welcome message about '")
    \o topic \o Str("'.")

----------------------------------------------------------------------------
(* Record store look-ups                                                   *)

Principals == {"alice", "bob"}

\* TUTORS.iter().find(..): the first match in key order; {} stands for None
MinOf(S) == CHOOSE x \in S : \A y \in S : x <= y

OwnedTutorIds(public_id, caller) ==
    {id \in DOMAIN tutors : tutors[id].public_id = public_id /\ tutors[id].user_id = caller}

TutorIdsByPublicId(public_id) ==
    {id \in DOMAIN tutors : tutors[id].public_id = public_id}

\* StableBTreeMap::insert and ::remove
Insert(table, key, value) ==
    [k \in DOMAIN table \cup {key} |-> IF k = key THEN value ELSE table[k]]

Remove(table, key) == [k \in DOMAIN table \ {key} |-> table[k]]

\* Option<T>
None == [some |-> FALSE, val |-> <<>>]
Some(v) == [some |-> TRUE, val |-> v]

\* str::is_empty, Vec::is_empty
is_empty(s) == s = <<>>

\* format!("{:x}", n)
HexDigits == <<"0", "1", "2", "3", "4", "5", "6", "7", "8", "9", "a", "b", "c", "d", "e", "f">>

RECURSIVE Hex(_)
Hex(n) == IF n < 16 THEN HexDigits[n + 1] ELSE Hex(n \div 16) \o HexDigits[(n % 16) + 1]

\* DefaultHasher::new() has a fixed key: hashing is a fixed function of the
\* value hashed.  It is injective on the clock values of the model.
DefaultHasher(v) == 2 * v + 1

\* generate_secure_id at host time timestamp
SecureId(timestamp) == "tutor_" \o Hex(DefaultHasher(DefaultHasher(timestamp)))

generate_secure_id == SecureId(now)

\* format!("session_{}", ic_cdk::api::time())
SessionIdAt(timestamp) == "session_" \o ToString(timestamp)

\* The records leave out the time stamps (created_at, updated_at,
\* timestamp): they are written and never read by a handler.

\* the Tutor create_tutor builds
Tutor(id, public_id, user_id, name, description, teaching_style, personality, expertise) ==
    [id |-> id, public_id |-> public_id, user_id |-> user_id,
     name |-> Trim(name), description |-> Trim(description),
     teaching_style |-> Trim(teaching_style), personality |-> Trim(personality),
     expertise |-> expertise, is_pinned |-> FALSE]

\* the ChatSession create_chat_session builds
ChatSession(id, tutor_id, user_id, topic) ==
    [id |-> id, tutor_id |-> tutor_id, user_id |-> user_id, topic |-> topic,
     status |-> "active"]

\* a ChatMessage
ChatMessage(id, session_id, sender, content) ==
    [id |-> id, session_id |-> session_id, sender |-> sender, content |-> content]

----------------------------------------------------------------------------
(* Inputs                                                                  *)

\* AI replies: every token sequence up to MaxTextLen, and replies that
\* take each parsing path
SampleTexts ==
    { <<LB, QUOTE, LETTER, QUOTE, RB>>,
      <<LB, QUOTE, LETTER, QUOTE, COMMA, SPACE, QUOTE, QUOTE, RB, NEWLINE>>,
      <<LETTER, NEWLINE, LB, QUOTE, LETTER, QUOTE, RB>>,
      <<LETTER, SPACE, LB, QUOTE, LETTER, QUOTE, RB>>,
      <<LETTER, NEWLINE, SPACE, QUOTE, LETTER, QUOTE, NEWLINE, QUOTE, QUOTE>>,
      <<LB, LETTER, RB, NEWLINE, QUOTE, LETTER, QUOTE>>,
      <<RB, LETTER, LB>>,
      <<LETTER>>,
      <<LB, "{suggestion1}", RB>>,
      <<LB, "{suggestion1}", COMMA, "{suggestion2}", COMMA, "{suggestion1}", COMMA,
        "{suggestion2}", RB>>,
      <<LB, LB, QUOTE, QUOTE, COMMA, QUOTE, QUOTE, COMMA, QUOTE, QUOTE, COMMA,
        QUOTE, LETTER, QUOTE, RB, RB>>,
      <<ValidationHead, LB, QUOTE, LETTER, QUOTE, RB, ObjectEnd>>,
      <<SPACE, ValidationHead, LB, RB, ObjectEnd, NEWLINE>>,
      <<OutlineHead, LB, QUOTE, LETTER, QUOTE, RB, OutlineMid, LB, RB, ObjectEnd>> }

Texts == SeqsUpTo(BasicChars, MaxTextLen) \cup SampleTexts

\* what the transport can answer one request with
RetryOutcomes ==
    {TransportErr(c) : c \in BOOLEAN}
    \cup {HttpResponse(st, "invalid_json", NoText) : st \in ErrorStatuses}

Outcomes ==
    RetryOutcomes
    \cup {HttpResponse(200, sh, NoText) : sh \in BodyShapes \ {"completion"}}
    \cup {HttpResponse(200, "completion", t) : t \in Texts}

GatewayPrompts == {TestPrompt, <<>>, <<QUOTE, LETTER, QUOTE>>}

----------------------------------------------------------------------------
(* Specification Spec: one invocation of call_groq_ai, request by request  *)

\* seq flips with every handler step, so that a step in which a handler ran
\* differs in call from a step in which none did
NoCall == [op |-> "none", caller |-> "none", tutor_id |-> "", session_id |-> "",
           topic |-> <<>>, seq |-> 0]
NoTable == [x \in {} |-> 0]

\* the ID allocator: one monotonic counter per entity kind
IdKinds == {"user", "tutor", "message", "learning_metrics", "learning_progress",
            "connection_request", "connection", "study_group", "group_membership"}
NoIds == [kind \in IdKinds |-> 0]
next_id(kind) == next_ids[kind] + 1

Init ==
    /\ pc = "idle"
    /\ prompt = <<>>
    /\ attempt = 0
    /\ requests = 0
    /\ history = <<>>
    /\ result = NoResult
    /\ tutors = NoTable
    /\ sessions = NoTable
    /\ users = NoTable
    /\ messages = NoTable
    /\ now = 1
    /\ next_ids = NoIds
    /\ pending = NoTable
    /\ learning_metrics = NoTable
    /\ learning_progress = NoTable
    /\ connection_requests = NoTable
    /\ connections = NoTable
    /\ study_groups = NoTable
    /\ group_memberships = NoTable
    /\ call = NoCall
    /\ reply = NoReply

\* entry of call_groq_ai: the request is built, the loop starts at 1
Call(p) ==
    /\ pc = "idle"
    /\ pc' = "request"
    /\ prompt' = p
    /\ attempt' = 1
    /\ UNCHANGED <<requests, history, result, storeVars, handlerVars>>

\* loop head: the pacing fold, then http_request is issued and awaited
SendRequest ==
    /\ pc = "request"
    /\ requests' = requests + 1
    /\ pc' = "await"
    /\ UNCHANGED <<prompt, attempt, history, result, storeVars, handlerVars>>

\* the awaited http_request completes with outcome o
Receive(o) ==
    /\ pc = "await"
    /\ history' = Append(history, o)
    /\ LET step == GroqStep(attempt, o)
       IN IF step.ret
          THEN /\ result' = step.res
               /\ pc' = "done"
               /\ UNCHANGED attempt
          ELSE IF attempt < max_retries
          THEN /\ attempt' = attempt + 1
               /\ pc' = "request"
               /\ UNCHANGED result
          ELSE /\ result' = Ok(FallbackReply(prompt))
               /\ pc' = "done"
               /\ UNCHANGED attempt
    /\ UNCHANGED <<prompt, requests, storeVars, handlerVars>>

Next ==
    \/ \E p \in GatewayPrompts : Call(p)
    \/ SendRequest
    \/ \E o \in Outcomes : Receive(o)

Spec == Init /\ [][Next]_vars

\* every outbound request eventually completes, and the canister keeps
\* executing the call
FairSpec == Spec /\ WF_vars(SendRequest) /\ WF_vars(\E o \in Outcomes : Receive(o))

----------------------------------------------------------------------------
(* Specification HandlerSpec: the AI handlers over a populated store.  A   *)
(* handler runs as one step; the answers the transport gives to its        *)
(* requests are the input script.                                          *)

Tags == {<<"a">>, <<"a", "B">>}
TopicChars == {"A", "b"}
Difficulties == {Str("beginner"), Str("intermediate")}

ExpertiseLists == SeqsUpTo(Tags, MaxTags) \ {<<>>}
Topics == SeqsUpTo(TopicChars, MaxTopicLen)

DefaultExpertise == <<<<"a">>>>
DefaultTopic == <<"A">>
DefaultDifficulty == Str("intermediate")

TutorIds == {SecureId(0), "tutor_none"}
SessionIds == {SessionIdAt(1), "session_none"}

\* the scripts a handler's call_groq_ai can consume entirely
HandlerScripts ==
    {<<o>> : o \in Outcomes \ RetryOutcomes}
    \cup {<<TransportErr(FALSE), HttpResponse(500, "invalid_json", NoText), o>> :
            o \in RetryOutcomes \cup {HttpResponse(200, "completion", t) : t \in SampleTexts}}

\* alice has created one tutor and one session with it; bob has nothing.
\* No handler's result depends on both the tutor's expertise and the
\* session's topic or the user's difficulty, so they vary one at a time.
HandlerInit ==
    /\ pc = "idle"
    /\ prompt = <<>>
    /\ attempt = 0
    /\ requests = 0
    /\ history = <<>>
    /\ result = NoResult
    /\ call = NoCall
    /\ reply = NoReply
    /\ messages = [sid \in {SessionIdAt(1)} |->
                        <<ChatMessage("welcome_1", sid, "tutor", Str("Welcome!"))>>]
    /\ now = 1
    /\ next_ids = [NoIds EXCEPT !["tutor"] = 1]
    /\ pending = NoTable
    /\ learning_metrics = NoTable
    /\ learning_progress = NoTable
    /\ connection_requests = NoTable
    /\ connections = NoTable
    /\ study_groups = NoTable
    /\ group_memberships = NoTable
    /\ \E e \in ExpertiseLists, t \in Topics, d \in Difficulties :
        /\ e = DefaultExpertise \/ (t = DefaultTopic /\ d = DefaultDifficulty)
        /\ tutors = [id \in {1} |->
                        Tutor(1, SecureId(0), "alice", Str("Ada"), Str("a tutor"),
                              Str("socratic"), Str("patient"), e)]
        /\ sessions = [sid \in {SessionIdAt(1)} |->
                        ChatSession(sid, SecureId(0), "alice", t)]
        /\ users = [u \in {"alice"} |->
                        [settings |-> [learning_style |-> Str("visual"),
                                       difficulty_level |-> d]]]

\* no handler has been called yet
Idle == call.op = "none"

\* the handler returns before any outbound call
ReturnEarly(c, r) ==
    /\ call' = c
    /\ reply' = r
    /\ UNCHANGED <<gatewayVars, storeVars>>

\* the handler awaits call_groq_ai(p) and the transport answers with script
AwaitGateway(p, script) ==
    LET run == call_groq_ai(p, script)
    IN /\ run.res.kind # "None"
       /\ run.used = Len(script)
       /\ pc' = "done"
       /\ prompt' = p
       /\ attempt' = Min(run.used, max_retries)
       /\ requests' = run.used
       /\ history' = script
       /\ result' = run.res

ACall(op, caller, tutor_id, session_id, topic) ==
    [op |-> op, caller |-> caller, tutor_id |-> tutor_id, session_id |-> session_id,
     topic |-> topic, seq |-> 1 - call.seq]

get_ai_topic_suggestions(caller, tutor_id, script) ==
    LET c == ACall("get_ai_topic_suggestions", caller, tutor_id, "", <<>>)
        ids == OwnedTutorIds(tutor_id, caller)
        tutor == tutors[MinOf(ids)]
    IN /\ IF ids = {}
          THEN /\ script = <<>>
               /\ ReturnEarly(c, RErr("Tutor not found or you don't have permission to access it"))
          ELSE /\ AwaitGateway(SuggestionsPrompt(tutor), script)
               /\ call' = c
               /\ reply' = LET gw == call_groq_ai(SuggestionsPrompt(tutor), script).res
                               parsed == ParseVecTopicSuggestion(gw.text)
                           IN IF gw.kind = "Err" THEN RErr(gw.err)
                              ELSE IF parsed.ok THEN ROk(parsed.val)
                              ELSE RErr("Failed to parse AI response")
               /\ UNCHANGED storeVars

\* generate_topic_suggestions(&tutor) called on a stored tutor
CallGenerateTopicSuggestions(id, script) ==
    LET c == ACall("generate_topic_suggestions", "none", tutors[id].public_id, "", <<>>)
    IN /\ AwaitGateway(TopicSuggestionsPrompt(tutors[id]), script)
       /\ call' = c
       /\ reply' = generate_topic_suggestions(tutors[id],
                        call_groq_ai(TopicSuggestionsPrompt(tutors[id]), script).res)
       /\ UNCHANGED storeVars

validate_ai_topic(caller, tutor_id, topic, script) ==
    LET c == ACall("validate_ai_topic", caller, tutor_id, "", topic)
        ids == OwnedTutorIds(tutor_id, caller)
        tutor == tutors[MinOf(ids)]
    IN /\ IF ids = {}
          THEN /\ script = <<>>
               /\ ReturnEarly(c, RErr("Tutor not found or you don't have permission to access it"))
          ELSE /\ AwaitGateway(ValidationPrompt(tutor, topic), script)
               /\ call' = c
               /\ reply' = validate_topic(tutor, topic,
                                call_groq_ai(ValidationPrompt(tutor, topic), script).res)
               /\ UNCHANGED storeVars

generate_ai_course_outline(caller, tutor_id, topic, script) ==
    LET c == ACall("generate_ai_course_outline", caller, tutor_id, "", topic)
        ids == OwnedTutorIds(tutor_id, caller)
        tutor == tutors[MinOf(ids)]
        p == OutlinePrompt(topic, users[caller].settings)
    IN /\ IF ids = {}
          THEN /\ script = <<>>
               /\ ReturnEarly(c, RErr("Tutor not found or you don't have permission to access it"))
          ELSE IF caller \notin DOMAIN users
          THEN /\ script = <<>>
               /\ ReturnEarly(c, RErr("User not found"))
          ELSE /\ AwaitGateway(p, script)
               /\ call' = c
               /\ reply' = generate_course_outline(tutor, topic, users[caller].settings,
                                                   call_groq_ai(p, script).res)
               /\ UNCHANGED storeVars

generate_course_modules(caller, session_id, script) ==
    LET c == ACall("generate_course_modules", caller, "", session_id, <<>>)
        session == sessions[session_id]
        ids == TutorIdsByPublicId(session.tutor_id)
        tutor == tutors[MinOf(ids)]
    IN /\ IF session_id \notin DOMAIN sessions
          THEN /\ script = <<>>
               /\ ReturnEarly(c, RErr("Session not found"))
          ELSE IF session.user_id # caller
          THEN /\ script = <<>>
               /\ ReturnEarly(c, RErr("You don't have permission to access this session"))
          ELSE IF ids = {}
          THEN /\ script = <<>>
               /\ ReturnEarly(c, RErr("Tutor not found"))
          ELSE /\ AwaitGateway(ModulesPrompt(session, tutor), script)
               /\ call' = c
               /\ reply' = ModulesFromGateway(session.topic,
                                call_groq_ai(ModulesPrompt(session, tutor), script).res)
               /\ UNCHANGED storeVars

HandlerNext ==
    \/ Idle /\ \E caller \in Principals, tid \in TutorIds, script \in HandlerScripts \cup {<<>>} :
                  get_ai_topic_suggestions(caller, tid, script)
    \/ Idle /\ \E id \in DOMAIN tutors, script \in HandlerScripts :
                  CallGenerateTopicSuggestions(id, script)
    \/ Idle /\ \E caller \in Principals, tid \in TutorIds, topic \in Topics,
                  script \in HandlerScripts \cup {<<>>} :
                  validate_ai_topic(caller, tid, topic, script)
    \/ Idle /\ \E caller \in Principals, tid \in TutorIds, topic \in Topics,
                  script \in HandlerScripts \cup {<<>>} :
                  generate_ai_course_outline(caller, tid, topic, script)
    \/ Idle /\ \E caller \in Principals, sid \in SessionIds,
                  script \in HandlerScripts \cup {<<>>} :
                  generate_course_modules(caller, sid, script)

HandlerSpec == HandlerInit /\ [][HandlerNext]_vars

----------------------------------------------------------------------------
(* Specification TutorSpec: the tutor handlers, from the empty store.      *)
(* SessionSpec below adds the creation of chat sessions.  A handler that   *)
(* awaits the gateway runs as two steps: up to the await, and from the     *)
(* await on.                                                               *)

MaxTime == 2        \* last host time the clock reaches
MaxTutors == 2      \* most tutors ever created

\* a new round begins: the host time moves on
Tick ==
    /\ now < MaxTime
    /\ now' = now + 1
    /\ UNCHANGED <<gatewayVars, tableVars, next_ids, pending, call, reply>>

\* TUTORS.insert of a tutor made with a fresh id
StoreTutor(tutor_id, new_tutor) ==
    /\ next_ids' = [next_ids EXCEPT !["tutor"] = tutor_id]
    /\ tutors' = Insert(tutors, tutor_id, new_tutor)
    /\ UNCHANGED <<sessions, users, messages, now, pending, learning_metrics,
                   learning_progress, socialVars>>

create_tutor(caller, name, description, teaching_style, personality, expertise) ==
    LET c == ACall("create_tutor", caller, "", "", <<>>)
        tutor_id == next_id("tutor")
        new_tutor == Tutor(tutor_id, generate_secure_id, caller, name, description,
                           teaching_style, personality, expertise)
    IN IF is_empty(Trim(name)) THEN ReturnEarly(c, RErr("Name is required"))
       ELSE IF is_empty(Trim(description))
          THEN ReturnEarly(c, RErr("Description is required"))
       ELSE IF is_empty(Trim(teaching_style))
          THEN ReturnEarly(c, RErr("Teaching style is required"))
       ELSE IF is_empty(Trim(personality))
          THEN ReturnEarly(c, RErr("Personality is required"))
       ELSE IF is_empty(expertise)
          THEN ReturnEarly(c, RErr("At least one expertise area is required"))
       ELSE /\ StoreTutor(tutor_id, new_tutor)
            /\ call' = c
            /\ reply' = ROk(new_tutor)
            /\ UNCHANGED gatewayVars

\* the local copy of the tutor after the "update fields if provided" part
UpdatedTutor(tutor, name, description, teaching_style, personality, expertise) ==
    [tutor EXCEPT
        !.name = IF name.some THEN Trim(name.val) ELSE @,
        !.description = IF description.some THEN Trim(description.val) ELSE @,
        !.teaching_style = IF teaching_style.some THEN Trim(teaching_style.val) ELSE @,
        !.personality = IF personality.some THEN Trim(personality.val) ELSE @,
        !.expertise = IF expertise.some THEN expertise.val ELSE @]

\* update_tutor that accepts a blank personality
update_tutor_blank_personality(caller, public_id, name, description, teaching_style, personality, expertise) ==
    LET c == ACall("update_tutor", caller, public_id, "", <<>>)
        ids == OwnedTutorIds(public_id, caller)
        id == MinOf(ids)
        updated == UpdatedTutor(tutors[id], name, description, teaching_style,
                                personality, expertise)
    IN IF ids = {}
          THEN ReturnEarly(c, RErr("Tutor not found or you don't have permission to update it"))
       ELSE IF name.some /\ is_empty(Trim(name.val))
          THEN ReturnEarly(c, RErr("Name cannot be empty"))
       ELSE IF description.some /\ is_empty(Trim(description.val))
          THEN ReturnEarly(c, RErr("Description cannot be empty"))
       ELSE IF teaching_style.some /\ is_empty(Trim(teaching_style.val))
          THEN ReturnEarly(c, RErr("Teaching style cannot be empty"))
       ELSE IF expertise.some /\ is_empty(expertise.val)
          THEN ReturnEarly(c, RErr("At least one expertise area is required"))
       ELSE /\ tutors' = Insert(tutors, id, updated)
            /\ call' = c
            /\ reply' = ROk(updated)
            /\ UNCHANGED <<gatewayVars, sessions, users, messages, now, next_ids, pending,
                           learning_metrics,
                           learning_progress, socialVars>>

update_tutor(caller, public_id, name, description, teaching_style, personality, expertise) ==
    LET c == ACall("update_tutor", caller, public_id, "", <<>>)
        ids == OwnedTutorIds(public_id, caller)
        id == MinOf(ids)
        updated == UpdatedTutor(tutors[id], name, description, teaching_style,
                                personality, expertise)
    IN IF ids = {}
          THEN ReturnEarly(c, RErr("Tutor not found or you don't have permission to update it"))
       ELSE IF name.some /\ is_empty(Trim(name.val))
          THEN ReturnEarly(c, RErr("Name cannot be empty"))
       ELSE IF description.some /\ is_empty(Trim(description.val))
          THEN ReturnEarly(c, RErr("Description cannot be empty"))
       ELSE IF teaching_style.some /\ is_empty(Trim(teaching_style.val))
          THEN ReturnEarly(c, RErr("Teaching style cannot be empty"))
       ELSE IF personality.some /\ is_empty(Trim(personality.val))
          THEN ReturnEarly(c, RErr("Personality cannot be empty"))
       ELSE IF expertise.some /\ is_empty(expertise.val)
          THEN ReturnEarly(c, RErr("At least one expertise area is required"))
       ELSE /\ tutors' = Insert(tutors, id, updated)
            /\ call' = c
            /\ reply' = ROk(updated)
            /\ UNCHANGED <<gatewayVars, sessions, users, messages, now, next_ids, pending,
                           learning_metrics,
                           learning_progress, socialVars>>

\* delete_tutor that also drops the chat sessions held with the tutor
delete_tutor_cascade(caller, public_id) ==
    LET c == ACall("delete_tutor", caller, public_id, "", <<>>)
        ids == OwnedTutorIds(public_id, caller)
        kept == {sid \in DOMAIN sessions : sessions[sid].tutor_id # public_id}
    IN IF ids = {}
          THEN ReturnEarly(c, RErr("Tutor not found or you don't have permission to delete it"))
       ELSE /\ tutors' = Remove(tutors, MinOf(ids))
            /\ sessions' = [sid \in kept |-> sessions[sid]]
            /\ call' = c
            /\ reply' = ROk(Str("Tutor deleted successfully"))
            /\ UNCHANGED <<gatewayVars, users, messages, now, next_ids, pending, learning_metrics,
                           learning_progress, socialVars>>

delete_tutor(caller, public_id) ==
    LET c == ACall("delete_tutor", caller, public_id, "", <<>>)
        ids == OwnedTutorIds(public_id, caller)
    IN IF ids = {}
          THEN ReturnEarly(c, RErr("Tutor not found or you don't have permission to delete it"))
       ELSE /\ tutors' = Remove(tutors, MinOf(ids))
            /\ call' = c
            /\ reply' = ROk(Str("Tutor deleted successfully"))
            /\ UNCHANGED <<gatewayVars, sessions, users, messages, now, next_ids, pending,
                           learning_metrics,
                           learning_progress, socialVars>>

toggle_tutor_pin(caller, public_id) ==
    LET c == ACall("toggle_tutor_pin", caller, public_id, "", <<>>)
        ids == OwnedTutorIds(public_id, caller)
        id == MinOf(ids)
        toggled == [tutors[id] EXCEPT !.is_pinned = ~@]
    IN IF ids = {}
          THEN ReturnEarly(c, RErr("Tutor not found or you don't have permission to modify it"))
       ELSE /\ tutors' = Insert(tutors, id, toggled)
            /\ call' = c
            /\ reply' = ROk(toggled)
            /\ UNCHANGED <<gatewayVars, sessions, users, messages, now, next_ids, pending,
                           learning_metrics,
                           learning_progress, socialVars>>

MaxPending == 2     \* most calls suspended at an await at once

\* the context of a suspended call is kept under the first free slot
FreeSlot == MinOf((1..MaxPending) \ DOMAIN pending)

\* the transports a suspended call is answered by
ChatScripts ==
    { <<HttpResponse(200, "completion", <<LETTER>>)>>,
      <<TransportErr(TRUE), TransportErr(FALSE), TransportErr(FALSE)>> }

\* what call_groq_ai(p) can return to a suspended call
GatewayResults(p) ==
    {call_groq_ai(p, script).res :
        script \in {sc \in ChatScripts : /\ call_groq_ai(p, sc).res.kind # "None"
                                         /\ call_groq_ai(p, sc).used = Len(sc)}}

\* the call of a suspended handler, as the handler step that runs now
Resumed(frame) == [frame.call EXCEPT !.seq = 1 - call.seq]

\* create_chat_session up to the await of generate_welcome_message
create_chat_session(caller, tutor_id, topic) ==
    LET c == ACall("create_chat_session", caller, tutor_id, "", topic)
        ids == TutorIdsByPublicId(tutor_id)
        tutor == tutors[MinOf(ids)]
        session_id == SessionIdAt(now)
        session == ChatSession(session_id, tutor_id, caller, topic)
    IN IF ids = {} THEN ReturnEarly(c, RErr("Tutor not found"))
       ELSE /\ sessions' = Insert(sessions, session_id, session)
            /\ pending' = Insert(pending, FreeSlot,
                                 [call |-> c, session_id |-> session_id,
                                  prompt |-> WelcomePrompt(tutor, topic),
                                  session_history |-> <<>>])
            /\ call' = c
            /\ reply' = NoReply
            /\ UNCHANGED <<gatewayVars, tutors, users, messages, now, next_ids, learning_metrics,
                           learning_progress, socialVars>>

\* create_chat_session from the await on: gw is what the gateway returned
create_chat_session_resumed(slot, gw) ==
    LET frame == pending[slot]
        welcome_message == ChatMessage("welcome_" \o ToString(now), frame.session_id,
                                       "tutor", gw.text)
    IN /\ frame.call.op = "create_chat_session"
       /\ call' = Resumed(frame)
       /\ pending' = Remove(pending, slot)
       /\ IF gw.kind = "Err"
          THEN /\ reply' = RErr(gw.err)
               /\ UNCHANGED messages
          ELSE /\ messages' = Insert(messages, frame.session_id, <<welcome_message>>)
               /\ reply' = ROk(frame.session_id)
       /\ UNCHANGED <<gatewayVars, tutors, sessions, users, now, next_ids, learning_metrics,
                      learning_progress, socialVars>>

\* what get_chat_session returns to caller when CHAT_SESSIONS is table
ChatSessionIn(table, caller, session_id) ==
    IF session_id \notin DOMAIN table THEN RErr("Session not found")
    ELSE IF table[session_id].user_id # caller
       THEN RErr("You don't have permission to access this session")
    ELSE ROk(table[session_id])

ChatSessionFor(caller, session_id) == ChatSessionIn(sessions, caller, session_id)

get_chat_session(caller, session_id) ==
    ReturnEarly(ACall("get_chat_session", caller, "", session_id, <<>>),
                ChatSessionFor(caller, session_id))

\* inputs of the tutor handlers
TutorForm(name, expertise) ==
    [name |-> name, description |-> <<"d">>, teaching_style |-> <<"s", SPACE>>,
     personality |-> <<SPACE, "p">>, expertise |-> expertise]

CreateForms ==
    LET valid == TutorForm(<<SPACE, "n", SPACE>>, DefaultExpertise)
    IN { valid,
         [valid EXCEPT !.name = <<SPACE>>],
         [valid EXCEPT !.description = <<>>],
         [valid EXCEPT !.teaching_style = <<NEWLINE>>],
         [valid EXCEPT !.personality = <<SPACE, SPACE>>],
         [valid EXCEPT !.expertise = <<>>] }

NoUpdate ==
    [name |-> None, description |-> None, teaching_style |-> None,
     personality |-> None, expertise |-> None]

UpdateForms ==
    { [NoUpdate EXCEPT !.name = Some(<<"m", SPACE>>), !.expertise = Some(<< <<"b">> >>)],
      [NoUpdate EXCEPT !.name = Some(<<SPACE>>)],
      [NoUpdate EXCEPT !.description = Some(<<>>)],
      [NoUpdate EXCEPT !.teaching_style = Some(<<SPACE>>)],
      [NoUpdate EXCEPT !.name = Some(<<"n">>), !.personality = Some(<<NEWLINE>>)],
      [NoUpdate EXCEPT !.expertise = Some(<<>>)] }

PublicIds == {tutors[id].public_id : id \in DOMAIN tutors} \cup {"tutor_none"}
KnownSessionIds == DOMAIN sessions \cup {"session_none"}

TutorNext ==
    \/ Tick
    \/ next_ids["tutor"] < MaxTutors
          /\ \E caller \in Principals, f \in CreateForms :
                create_tutor(caller, f.name, f.description, f.teaching_style,
                             f.personality, f.expertise)
    \/ \E caller \in Principals, public_id \in PublicIds, f \in UpdateForms :
            update_tutor(caller, public_id, f.name, f.description, f.teaching_style,
                         f.personality, f.expertise)
    \/ \E caller \in Principals, public_id \in PublicIds : delete_tutor(caller, public_id)
    \/ \E caller \in Principals, public_id \in PublicIds : toggle_tutor_pin(caller, public_id)

TutorSpec == Init /\ [][TutorNext]_vars

\* Specification SessionSpec: chat sessions are created with stored tutors
\* and read, and tutors are deleted.  Two tutors have been created: the
\* first by alice at time 0, the second by either principal at time 0 or 1.
MaxSessions == 1    \* most chat sessions stored at once

SessionInit ==
    /\ pc = "idle"
    /\ prompt = <<>>
    /\ attempt = 0
    /\ requests = 0
    /\ history = <<>>
    /\ result = NoResult
    /\ call = NoCall
    /\ reply = NoReply
    /\ sessions = NoTable
    /\ users = NoTable
    /\ messages = NoTable
    /\ pending = NoTable
    /\ learning_metrics = NoTable
    /\ learning_progress = NoTable
    /\ connection_requests = NoTable
    /\ connections = NoTable
    /\ study_groups = NoTable
    /\ group_memberships = NoTable
    /\ now = 1
    /\ next_ids = [NoIds EXCEPT !["tutor"] = 2]
    /\ \E owner \in Principals, created \in 0..1 :
          tutors = [id \in {1, 2} |->
                      IF id = 1
                      THEN Tutor(1, SecureId(0), "alice", <<"n">>, <<"d">>, <<"s">>, <<"p">>,
                                 DefaultExpertise)
                      ELSE Tutor(2, SecureId(created), owner, <<"m">>, <<"d">>, <<"s">>,
                                 <<"p">>, DefaultExpertise)]

SessionNext ==
    \/ Tick
    \/ \E caller \in Principals, public_id \in PublicIds : delete_tutor(caller, public_id)
    \/ pending = NoTable /\ Cardinality(DOMAIN sessions \cup {SessionIdAt(now)}) <= MaxSessions
          /\ \E caller \in Principals, public_id \in PublicIds :
                create_chat_session(caller, public_id, DefaultTopic)
    \/ \E slot \in DOMAIN pending :
            \E gw \in GatewayResults(pending[slot].prompt) :
                create_chat_session_resumed(slot, gw)
    \/ \E caller \in Principals, session_id \in KnownSessionIds :
            get_chat_session(caller, session_id)

SessionSpec == SessionInit /\ [][SessionNext]_vars

\* Specification RerunSpec: a handler of HandlerSpec runs, the clock, the id
\* counters and the tutor table move on, and the same call is made again
\* and answered by the transport as before.

\* the transport answers the first request with a completion
RerunScripts == {<<HttpResponse(200, "completion", t)>> : t \in SampleTexts}

\* bob's create_tutor runs in between; its reply goes to bob, and call and
\* reply keep the run that is being repeated
OtherCreateTutor ==
    LET tutor_id == next_id("tutor")
    IN /\ ~Idle
       /\ tutor_id <= MaxTutors
       /\ StoreTutor(tutor_id, Tutor(tutor_id, generate_secure_id, "bob", <<"m">>, <<"d">>,
                                      <<"s">>, <<"p">>, << <<"b">> >>))
       /\ UNCHANGED <<gatewayVars, call, reply>>

\* the call made last, made again with the transport's answers of last time
Rerun ==
    /\ ~Idle
    /\ \/ /\ call.op = "generate_topic_suggestions"
          /\ \E id \in DOMAIN tutors :
                /\ tutors[id].public_id = call.tutor_id
                /\ CallGenerateTopicSuggestions(id, history)
       \/ /\ call.op = "validate_ai_topic"
          /\ validate_ai_topic(call.caller, call.tutor_id, call.topic, history)
       \/ /\ call.op = "generate_ai_course_outline"
          /\ generate_ai_course_outline(call.caller, call.tutor_id, call.topic, history)
       \/ /\ call.op = "generate_course_modules"
          /\ generate_course_modules(call.caller, call.session_id, history)

RerunNext ==
    \/ Idle /\ \E id \in DOMAIN tutors, script \in RerunScripts :
                  CallGenerateTopicSuggestions(id, script)
    \/ Idle /\ \E caller \in Principals, tid \in TutorIds, topic \in Topics,
                  script \in RerunScripts :
                  validate_ai_topic(caller, tid, topic, script)
    \/ Idle /\ \E caller \in Principals, tid \in TutorIds, topic \in Topics,
                  script \in RerunScripts :
                  generate_ai_course_outline(caller, tid, topic, script)
    \/ Idle /\ \E caller \in Principals, sid \in SessionIds, script \in RerunScripts :
                  generate_course_modules(caller, sid, script)
    \/ Tick
    \/ OtherCreateTutor
    \/ Rerun

RerunSpec == HandlerInit /\ [][RerunNext]_vars

----------------------------------------------------------------------------
(* Specification UserSpec: the handlers that write the user table, from    *)
(* the empty store, within one round of the host.  A password is the      *)
(* number of its string; a principal is a string.                          *)

MaxUsers == 1       \* most users ever given an id by next_id("user")

\* hash_password: DefaultHasher over the password, printed with {:x}
hash_password(password) == Hex(DefaultHasher(password))

verify_password(password, hash) == hash_password(password) = hash

\* Principal::self_authenticating of the seed made of user_id four times
DerivedPrincipal(user_id) == "self_" \o ToString(user_id)

default_settings ==
    [learning_style |-> Str("visual"), difficulty_level |-> Str("intermediate")]

\* the rows of USERS whose email is email: the handlers take the first in
\* the order of the principals' bytes, which the model leaves open
UsersByEmail(email) == {u \in DOMAIN users : users[u].email = email}

\* the User that create_user, register_user and upsert_external_user build;
\* of its time stamps it keeps last_login, which login_user writes
User(id, public_id, email, username, is_verified, last_login, password_hash) ==
    [id |-> id, public_id |-> public_id, email |-> email, username |-> username,
     first_name |-> None, last_name |-> None, avatar_url |-> None,
     is_active |-> TRUE, is_verified |-> is_verified, last_login |-> last_login,
     oauth_provider |-> None, role |-> "user", status |-> "active",
     settings |-> default_settings,
     password_hash |-> password_hash]

\* a handler that writes one row of USERS and returns it
StoreUser(c, key, user) ==
    /\ users' = Insert(users, key, user)
    /\ call' = c
    /\ reply' = ROk(user)

create_user(caller, username, email) ==
    LET c == ACall("create_user", caller, "", "", <<>>)
        new_user == User(caller, caller, email, username, FALSE, None, None)
    IN /\ StoreUser(c, caller, new_user)
       /\ UNCHANGED <<gatewayVars, tutors, sessions, messages, now, next_ids, pending,
                      learning_metrics,
                      learning_progress, socialVars>>

register_user(caller, username, email, password) ==
    LET c == ACall("register_user", caller, "", "", <<>>)
        user_id == next_id("user")
        principal == DerivedPrincipal(user_id)
        new_user == User(principal, ToString(user_id), email, username, FALSE, None,
                         Some(hash_password(password)))
    IN IF UsersByEmail(email) # {}
          THEN ReturnEarly(c, RErr("Email already registered"))
       ELSE IF \E u \in DOMAIN users : users[u].username = username
          THEN ReturnEarly(c, RErr("Username already taken"))
       ELSE /\ StoreUser(c, principal, new_user)
            /\ next_ids' = [next_ids EXCEPT !["user"] = user_id]
            /\ UNCHANGED <<gatewayVars, tutors, sessions, messages, now, pending, learning_metrics,
                           learning_progress, socialVars>>

login_user(caller, email, password) ==
    LET c == ACall("login_user", caller, "", "", <<>>)
    IN IF UsersByEmail(email) = {} THEN ReturnEarly(c, RErr("User not found"))
       ELSE \E key \in UsersByEmail(email) :
              LET user == users[key]
                  updated_user == [user EXCEPT !.last_login = Some(now)]
              IN IF ~user.password_hash.some
                    THEN ReturnEarly(c,
                            RErr("Account not set up for password authentication"))
                 ELSE IF ~verify_password(password, user.password_hash.val)
                    THEN ReturnEarly(c, RErr("Invalid password"))
                 ELSE /\ StoreUser(c, user.id, updated_user)
                      /\ UNCHANGED <<gatewayVars, tutors, sessions, messages, now,
                                     next_ids, pending, learning_metrics,
                                     learning_progress, socialVars>>

\* a field of upsert_external_user's "update if provided and not blank"
Provided(old, new) == IF new.some /\ ~is_empty(Trim(new.val)) THEN new.val ELSE old

ProvidedSome(old, new) == IF new.some /\ ~is_empty(Trim(new.val)) THEN new ELSE old

\* the username upsert_external_user gives a new user
derived_username(email, username) ==
    LET pos == Find(email, "@")
        at == IF pos = 0 THEN 0 ELSE pos - 1
    IN IF username.some THEN username.val
       ELSE IF at > 0 THEN SubSeq(email, 1, at) ELSE email

upsert_external_user(caller, email, username, first_name, last_name, avatar_url, is_verified) ==
    LET c == ACall("upsert_external_user", caller, "", "", <<>>)
        user_id == next_id("user")
        principal == DerivedPrincipal(user_id)
        new_user == [User(principal, ToString(user_id), email,
                          derived_username(email, username),
                          IF is_verified.some THEN is_verified.val ELSE TRUE,
                          Some(now), None)
                        EXCEPT !.first_name = first_name, !.last_name = last_name,
                               !.avatar_url = avatar_url,
                               !.oauth_provider = Some(Str("python"))]
    IN IF UsersByEmail(email) # {}
          THEN \E key \in UsersByEmail(email) :
                 LET existing == users[key]
                     user == [existing EXCEPT
                                !.username = Provided(@, username),
                                !.first_name = ProvidedSome(@, first_name),
                                !.last_name = ProvidedSome(@, last_name),
                                !.avatar_url = ProvidedSome(@, avatar_url),
                                !.is_verified = IF is_verified.some THEN is_verified.val
                                                ELSE @]
                 IN /\ StoreUser(c, user.id, user)
                    /\ UNCHANGED <<gatewayVars, tutors, sessions, messages, now,
                                   next_ids, pending, learning_metrics,
                                   learning_progress, socialVars>>
       ELSE /\ StoreUser(c, principal, new_user)
            /\ next_ids' = [next_ids EXCEPT !["user"] = user_id]
            /\ UNCHANGED <<gatewayVars, tutors, sessions, messages, now, pending, learning_metrics,
                           learning_progress, socialVars>>

is_admin(principal) == principal \in DOMAIN users /\ users[principal].role = "admin"

update_user_status_admin(caller, user_id, status) ==
    LET c == ACall("update_user_status_admin", caller, "", "", <<>>)
    IN IF ~is_admin(caller)
          THEN ReturnEarly(c, RErr("Only admins can perform this action."))
       ELSE IF user_id \notin DOMAIN users THEN ReturnEarly(c, RErr("User not found."))
       ELSE /\ StoreUser(c, user_id, [users[user_id] EXCEPT !.status = status])
            /\ UNCHANGED <<gatewayVars, tutors, sessions, messages, now, next_ids,
                           pending, learning_metrics,
                           learning_progress, socialVars>>

\* inputs of the user handlers
Emails == {<<"a", "@", "x">>, <<"@", "b">>}
Usernames == {<<"u">>, <<"v">>}
Passwords == {1, 2}

NoProfile ==
    [username |-> None, first_name |-> None, last_name |-> None, avatar_url |-> None,
     is_verified |-> None]

ExternalProfiles ==
    { NoProfile,
      [NoProfile EXCEPT !.username = Some(<<"w">>), !.first_name = Some(<<SPACE>>),
                        !.last_name = Some(<<>>), !.avatar_url = Some(<<"p">>),
                        !.is_verified = Some(TRUE)] }

\* the id counter of the users stops at MaxUsers: a call that would create
\* one more user is left out
MayCreateUser == next_ids["user"] < MaxUsers

UserNext ==
    \/ \E caller \in Principals, email \in Emails : create_user(caller, <<"u">>, email)
    \/ \E caller \in Principals, username \in Usernames, email \in Emails :
            /\ \/ MayCreateUser
               \/ UsersByEmail(email) # {}
               \/ \E u \in DOMAIN users : users[u].username = username
            /\ register_user(caller, username, email, 1)
    \/ \E caller \in Principals, email \in Emails, password \in Passwords :
            login_user(caller, email, password)
    \/ \E caller \in Principals, email \in Emails, f \in ExternalProfiles :
            /\ MayCreateUser \/ UsersByEmail(email) # {}
            /\ upsert_external_user(caller, email, f.username, f.first_name, f.last_name,
                                    f.avatar_url, f.is_verified)
    \/ \E caller \in Principals, user_id \in DOMAIN users :
            update_user_status_admin(caller, user_id, "suspended")

UserSpec == Init /\ [][UserNext]_vars

----------------------------------------------------------------------------
(* Specification ChatSpec: messages are sent on one chat session, by calls *)
(* that overlap, and read.  alice has a user record, a tutor and a chat    *)
(* session with it that holds the welcome message; bob has none of these.  *)

MaxSends == 2       \* most message-sending calls that get past their checks

\* the prompt of send_tutor_message
ChatPrompt(tutor, content) ==
    Str("Expert in: ") \o JoinTags(tutor.expertise) \o Str(". Style: ")
    \o tutor.teaching_style \o Str(". Personality: ") \o tutor.personality
    \o Str(". Student: ") \o <<QUOTE>> \o content \o <<QUOTE>>
    \o Str(" Give a helpful, educational response in 2-3 sentences.")

\* session_history.iter().rev().take(3), each as "sender: content\n"
RECURSIVE Context(_, _)
Context(session_history, n) ==
    IF n = 0 \/ session_history = <<>> THEN <<>>
    ELSE LET msg == session_history[Len(session_history)]
         IN <<msg.sender, ": ">> \o msg.content \o <<NEWLINE>>
            \o Context(SubSeq(session_history, 1, Len(session_history) - 1), n - 1)

\* the system_prompt of generate_tutor_chat_response
TutorChatPrompt(user_message, session_history, tutor_data, user_preferences) ==
    Str("You are ") \o tutor_data.name \o Str(" an AI tutor. Teaching style: ")
    \o tutor_data.teaching_style \o Str(". Student: ") \o user_preferences.learning_style
    \o Str(". Context: ") \o Context(session_history, 3) \o Str(" Student: ")
    \o user_message \o Str(" Respond briefly and helpfully. Use emojis! Keep under 200 chars.")

\* the ComprehensionAnalysis of generate_tutor_chat_response; the score is
\* in tenths
ComprehensionAnalysis(user_message) ==
    LET comprehension_score == IF Len(user_message) > 50 THEN 7 ELSE 5
    IN [comprehension_score |-> comprehension_score,
        difficulty_adjustment |-> IF comprehension_score > 6 THEN "maintain"
                                  ELSE "simplify"]

\* messages.get(&session_id) with unwrap_or_else(empty) / unwrap_or_default()
MessagesOf(session_id) ==
    IF session_id \in DOMAIN messages THEN messages[session_id] ELSE <<>>

\* the checks every session-scoped handler starts with: the error to
\* return, or "" when the caller may go on
SessionCheck(caller, session_id) ==
    IF session_id \notin DOMAIN sessions THEN "Session not found"
    ELSE IF sessions[session_id].user_id # caller
       THEN "You don't have permission to access this session"
    ELSE ""

\* the context a message-sending call keeps across its await
SendFrame(c, session_id, p, session_history, message) ==
    [call |-> c, session_id |-> session_id, prompt |-> p,
     session_history |-> session_history, message |-> message]

\* send_tutor_message up to the await of call_groq_ai
send_tutor_message(caller, session_id, content) ==
    LET c == ACall("send_tutor_message", caller, "", session_id, content)
        check == SessionCheck(caller, session_id)
        session == sessions[session_id]
        message_id == next_id("message")
        user_message == ChatMessage("msg_" \o ToString(message_id), session_id,
                                    "user", content)
        ids == TutorIdsByPublicId(session.tutor_id)
        tutor == tutors[MinOf(ids)]
    IN IF check # "" THEN ReturnEarly(c, RErr(check))
       ELSE /\ next_ids' = [next_ids EXCEPT !["message"] = message_id]
            /\ messages' = Insert(messages, session_id,
                                  Append(MessagesOf(session_id), user_message))
            /\ call' = c
            /\ IF ids = {}
               THEN /\ reply' = RErr("Tutor not found")
                    /\ UNCHANGED pending
               ELSE /\ reply' = NoReply
                    /\ pending' = Insert(pending, FreeSlot,
                                         SendFrame(c, session_id, ChatPrompt(tutor, content),
                                                   <<>>, content))
            /\ UNCHANGED <<gatewayVars, tutors, sessions, users, learning_metrics, now,
                           learning_progress, socialVars>>

\* send_tutor_message from the await on
send_tutor_message_resumed(slot, gw) ==
    LET frame == pending[slot]
        message_id == next_id("message")
        tutor_message == ChatMessage("msg_" \o ToString(message_id), frame.session_id,
                                     "tutor", gw.text)
    IN /\ frame.call.op = "send_tutor_message"
       /\ call' = Resumed(frame)
       /\ pending' = Remove(pending, slot)
       /\ IF gw.kind = "Err"
          THEN /\ reply' = RErr(gw.err)
               /\ UNCHANGED <<messages, next_ids>>
          ELSE /\ next_ids' = [next_ids EXCEPT !["message"] = message_id]
               /\ messages' = Insert(messages, frame.session_id,
                                     Append(MessagesOf(frame.session_id), tutor_message))
               /\ reply' = ROk("msg_" \o ToString(message_id))
       /\ UNCHANGED <<gatewayVars, tutors, sessions, users, learning_metrics, now,
                      learning_progress, socialVars>>

\* send_ai_tutor_message up to the await in generate_tutor_chat_response
send_ai_tutor_message(caller, session_id, message) ==
    LET c == ACall("send_ai_tutor_message", caller, "", session_id, message)
        check == SessionCheck(caller, session_id)
        session == sessions[session_id]
        ids == TutorIdsByPublicId(session.tutor_id)
        tutor == tutors[MinOf(ids)]
        session_history == MessagesOf(session_id)
    IN IF check # "" THEN ReturnEarly(c, RErr(check))
       ELSE IF ids = {} THEN ReturnEarly(c, RErr("Tutor not found"))
       ELSE IF caller \notin DOMAIN users THEN ReturnEarly(c, RErr("User not found"))
       ELSE /\ pending' = Insert(pending, FreeSlot,
                                 SendFrame(c, session_id,
                                           TutorChatPrompt(message, session_history, tutor,
                                                           users[caller].settings),
                                           session_history, message))
            /\ call' = c
            /\ reply' = NoReply
            /\ UNCHANGED <<gatewayVars, tableVars, now, next_ids>>

\* send_ai_tutor_message from the await on
send_ai_tutor_message_resumed(slot, gw) ==
    LET frame == pending[slot]
        user_message == ChatMessage(ToString(now), frame.session_id, "user", frame.message)
        tutor_message == ChatMessage(ToString(now + 1), frame.session_id, "tutor", gw.text)
        updated_history == frame.session_history \o <<user_message, tutor_message>>
        analysis == ComprehensionAnalysis(frame.message)
        metrics_id == next_id("learning_metrics")
        metrics == [id |-> metrics_id, user_id |-> frame.call.caller, session_id |-> 0,
                    time_spent_minutes |-> 5, messages_sent |-> 1,
                    comprehension_score |-> analysis.comprehension_score,
                    difficulty_adjustment |-> analysis.difficulty_adjustment]
    IN /\ frame.call.op = "send_ai_tutor_message"
       /\ call' = Resumed(frame)
       /\ pending' = Remove(pending, slot)
       /\ IF gw.kind = "Err"
          THEN /\ reply' = RErr(gw.err)
               /\ UNCHANGED <<messages, learning_metrics, next_ids>>
          ELSE /\ messages' = Insert(messages, frame.session_id, updated_history)
               /\ next_ids' = [next_ids EXCEPT !["learning_metrics"] = metrics_id]
               /\ learning_metrics' = Insert(learning_metrics, metrics_id, metrics)
               /\ reply' = ROk([response |-> gw.text, analysis |-> analysis])
       /\ UNCHANGED <<gatewayVars, tutors, sessions, users, now,
                      learning_progress, socialVars>>

\* get_session_messages without the check of the caller
get_session_messages_unchecked(caller, session_id) ==
    LET c == ACall("get_session_messages", caller, "", session_id, <<>>)
    IN IF session_id \notin DOMAIN sessions THEN ReturnEarly(c, RErr("Session not found"))
       ELSE ReturnEarly(c, ROk(MessagesOf(session_id)))

get_session_messages(caller, session_id) ==
    LET c == ACall("get_session_messages", caller, "", session_id, <<>>)
        check == SessionCheck(caller, session_id)
    IN IF check # "" THEN ReturnEarly(c, RErr(check))
       ELSE ReturnEarly(c, ROk(MessagesOf(session_id)))

get_session_progress(caller, session_id) ==
    LET c == ACall("get_session_progress", caller, "", session_id, <<>>)
        check == SessionCheck(caller, session_id)
        progress == [id |-> 1, user_id |-> caller, session_id |-> session_id,
                     course_id |-> 1, current_module_id |-> Some(1),
                     progress_percentage |-> 0]
    IN IF check # "" THEN ReturnEarly(c, RErr(check))
       ELSE ReturnEarly(c, ROk([session_id |-> session_id, user_id |-> caller,
                                progress |-> progress]))

delete_chat_session(caller, session_id) ==
    LET c == ACall("delete_chat_session", caller, "", session_id, <<>>)
    IN IF session_id \notin DOMAIN sessions THEN ReturnEarly(c, RErr("Session not found"))
       ELSE IF sessions[session_id].user_id # caller
          THEN ReturnEarly(c, RErr("You don't have permission to delete this session"))
       ELSE /\ sessions' = Remove(sessions, session_id)
            /\ messages' = Remove(messages, session_id)
            /\ call' = c
            /\ reply' = ROk("Session " \o session_id \o " deleted successfully")
            /\ UNCHANGED <<gatewayVars, tutors, users, learning_metrics, now, next_ids,
                           pending,
                           learning_progress, socialVars>>

ChatInit ==
    /\ pc = "idle"
    /\ prompt = <<>>
    /\ attempt = 0
    /\ requests = 0
    /\ history = <<>>
    /\ result = NoResult
    /\ call = NoCall
    /\ reply = NoReply
    /\ tutors = [id \in {1} |->
                    Tutor(1, SecureId(0), "alice", <<"n">>, <<"d">>, <<"s">>, <<"p">>,
                          DefaultExpertise)]
    /\ sessions = [sid \in {SessionIdAt(0)} |->
                    ChatSession(sid, SecureId(0), "alice", DefaultTopic)]
    /\ messages = [sid \in {SessionIdAt(0)} |->
                    <<ChatMessage("welcome_0", sid, "tutor", <<LETTER>>)>>]
    /\ users = [u \in {"alice"} |->
                    User("alice", "alice", <<"a", "@", "x">>, <<"u">>, FALSE, None, None)]
    /\ learning_metrics = NoTable
    /\ learning_progress = NoTable
    /\ connection_requests = NoTable
    /\ connections = NoTable
    /\ study_groups = NoTable
    /\ group_memberships = NoTable
    /\ now = 1
    /\ next_ids = [NoIds EXCEPT !["tutor"] = 1]
    /\ pending = NoTable

\* inputs of the chat handlers
Contents == {<<"h">>}
ChatSessionIds == {SessionIdAt(0)}

\* the message-sending calls that got past their checks so far, counted in
\* message ids: a send_tutor_message takes two, a send_ai_tutor_message is
\* counted as two
SendsBegun ==
    LET suspended(op) == Cardinality({slot \in DOMAIN pending : pending[slot].call.op = op})
    IN next_ids["message"] + suspended("send_tutor_message")
       + 2 * (next_ids["learning_metrics"] + suspended("send_ai_tutor_message"))

\* a message-sending call is let in while MaxSends and MaxPending allow it
MaySend(caller, session_id) ==
    \/ SessionCheck(caller, session_id) # ""
    \/ /\ SendsBegun < 2 * MaxSends
       /\ Cardinality(DOMAIN pending) < MaxPending

ChatNext ==
    \/ Tick
    \/ \E caller \in Principals, session_id \in ChatSessionIds, content \in Contents :
            /\ MaySend(caller, session_id)
            /\ send_tutor_message(caller, session_id, content)
    \/ \E slot \in DOMAIN pending :
            \E gw \in GatewayResults(pending[slot].prompt) :
                send_tutor_message_resumed(slot, gw)
    \/ \E caller \in Principals, session_id \in ChatSessionIds, message \in Contents :
            /\ MaySend(caller, session_id)
            /\ send_ai_tutor_message(caller, session_id, message)
    \/ \E slot \in DOMAIN pending :
            \E gw \in GatewayResults(pending[slot].prompt) :
                send_ai_tutor_message_resumed(slot, gw)
    \/ \E caller \in Principals, session_id \in ChatSessionIds :
            get_session_messages(caller, session_id)

ChatSpec == ChatInit /\ [][ChatNext]_vars

\* Specification AccessSpec: every handler that takes a session id, called
\* by alice and by bob on alice's session, one call at a time.
MayStartSend(caller, session_id) ==
    \/ SessionCheck(caller, session_id) # ""
    \/ /\ SendsBegun < 2 * MaxSends
       /\ pending = NoTable

AccessNext ==
    \/ Tick
    \/ \E caller \in Principals, session_id \in ChatSessionIds, content \in Contents :
            /\ MayStartSend(caller, session_id)
            /\ send_tutor_message(caller, session_id, content)
    \/ \E slot \in DOMAIN pending :
            \E gw \in GatewayResults(pending[slot].prompt) :
                send_tutor_message_resumed(slot, gw)
    \/ \E caller \in Principals, session_id \in ChatSessionIds, message \in Contents :
            /\ MayStartSend(caller, session_id)
            /\ send_ai_tutor_message(caller, session_id, message)
    \/ \E slot \in DOMAIN pending :
            \E gw \in GatewayResults(pending[slot].prompt) :
                send_ai_tutor_message_resumed(slot, gw)
    \/ \E caller \in Principals, session_id \in ChatSessionIds :
            get_session_messages(caller, session_id)
    \/ \E caller \in Principals, session_id \in ChatSessionIds :
            get_chat_session(caller, session_id)
    \/ \E caller \in Principals, session_id \in ChatSessionIds :
            get_session_progress(caller, session_id)
    \/ \E caller \in Principals, session_id \in ChatSessionIds :
            delete_chat_session(caller, session_id)
    \/ \E caller \in Principals, session_id \in ChatSessionIds,
          script \in {<<>>, <<HttpResponse(200, "completion", <<LETTER>>)>>} :
            generate_course_modules(caller, session_id, script)

AccessSpec == ChatInit /\ [][AccessNext]_vars

----------------------------------------------------------------------------
(* Specification ConnectionSpec: connection requests are sent and          *)
(* accepted, from the empty store, within one round of the host.           *)

MaxRequests == 2    \* most connection requests ever sent

send_connection_request(caller, receiver_id, message) ==
    LET c == ACall("send_connection_request", caller, "", "", <<>>)
        request_id == next_id("connection_request")
        new_request == [id |-> request_id, sender_id |-> caller,
                        receiver_id |-> receiver_id, status |-> "pending",
                        message |-> message, responded_at |-> None]
    IN IF caller = receiver_id
          THEN ReturnEarly(c, RErr("Cannot send connection request to yourself."))
       ELSE /\ next_ids' = [next_ids EXCEPT !["connection_request"] = request_id]
            /\ connection_requests' = Insert(connection_requests, request_id, new_request)
            /\ call' = c
            /\ reply' = ROk(new_request)
            /\ UNCHANGED <<gatewayVars, tutors, sessions, users, messages, learning_metrics,
                           learning_progress, connections, study_groups, group_memberships,
                           now, pending>>

\* accept_connection_request that does not look at the request's status
accept_connection_request_any_status(caller, request_id) ==
    LET c == ACall("accept_connection_request", caller, "", "", <<>>)
        request == connection_requests[request_id]
        updated_request == [request EXCEPT !.status = "accepted",
                                           !.responded_at = Some(now)]
        connection_id == next_id("connection")
        new_connection == [id |-> connection_id, user1_id |-> request.sender_id,
                           user2_id |-> request.receiver_id, status |-> "active"]
    IN IF request_id \notin DOMAIN connection_requests
          THEN ReturnEarly(c, RErr("Connection request not found."))
       ELSE IF request.receiver_id # caller
          THEN ReturnEarly(c, RErr("You are not authorized to accept this request."))
       ELSE /\ connection_requests' = Insert(connection_requests, request_id,
                                             updated_request)
            /\ next_ids' = [next_ids EXCEPT !["connection"] = connection_id]
            /\ connections' = Insert(connections, connection_id, new_connection)
            /\ call' = c
            /\ reply' = ROk(new_connection)
            /\ UNCHANGED <<gatewayVars, tutors, sessions, users, messages, learning_metrics,
                           learning_progress, study_groups, group_memberships, now, pending>>

accept_connection_request(caller, request_id) ==
    LET c == ACall("accept_connection_request", caller, "", "", <<>>)
        request == connection_requests[request_id]
        updated_request == [request EXCEPT !.status = "accepted",
                                           !.responded_at = Some(now)]
        connection_id == next_id("connection")
        new_connection == [id |-> connection_id, user1_id |-> request.sender_id,
                           user2_id |-> request.receiver_id, status |-> "active"]
    IN IF request_id \notin DOMAIN connection_requests
          THEN ReturnEarly(c, RErr("Connection request not found."))
       ELSE IF request.receiver_id # caller
          THEN ReturnEarly(c, RErr("You are not authorized to accept this request."))
       ELSE IF request.status # "pending"
          THEN ReturnEarly(c, RErr("This request is no longer pending."))
       ELSE /\ connection_requests' = Insert(connection_requests, request_id,
                                             updated_request)
            /\ next_ids' = [next_ids EXCEPT !["connection"] = connection_id]
            /\ connections' = Insert(connections, connection_id, new_connection)
            /\ call' = c
            /\ reply' = ROk(new_connection)
            /\ UNCHANGED <<gatewayVars, tutors, sessions, users, messages, learning_metrics,
                           learning_progress, study_groups, group_memberships, now, pending>>

\* inputs of the connection handlers
Members == Principals \cup {"carol"}
RequestMessages == {Some(<<"h">>)}
RequestIds == 1..(MaxRequests + 1)

ConnectionNext ==
    \/ \E caller \in Members, receiver_id \in Members, message \in RequestMessages :
            /\ caller = receiver_id \/ next_ids["connection_request"] < MaxRequests
            /\ send_connection_request(caller, receiver_id, message)
    \/ \E caller \in Members, request_id \in RequestIds :
            accept_connection_request(caller, request_id)

ConnectionSpec == Init /\ [][ConnectionNext]_vars

----------------------------------------------------------------------------
(* Specification GroupSpec: study groups are created and joined, from the  *)
(* empty store, within one round of the host.                              *)

MaxGroups == 2          \* most study groups ever created
MaxMemberships == 3     \* most group memberships ever created

\* the GroupMembership both handlers build
GroupMembership(id, user_id, group_id, role) ==
    [id |-> id, user_id |-> user_id, group_id |-> group_id, role |-> role,
     status |-> "active", contributions |-> 0]

create_study_group(caller, name, description, is_private, max_members, learning_level) ==
    LET c == ACall("create_study_group", caller, "", "", <<>>)
        group_id == next_id("study_group")
        new_group == [id |-> group_id, public_id |-> ToString(group_id), name |-> name,
                      description |-> description, creator_id |-> caller,
                      topic_id |-> None, is_private |-> is_private,
                      max_members |-> max_members, learning_level |-> learning_level,
                      meeting_frequency |-> None, goals |-> None]
        membership_id == next_id("group_membership")
        new_membership == GroupMembership(membership_id, caller, group_id, "admin")
    IN /\ next_ids' = [next_ids EXCEPT !["study_group"] = group_id,
                                       !["group_membership"] = membership_id]
       /\ study_groups' = Insert(study_groups, group_id, new_group)
       /\ group_memberships' = Insert(group_memberships, membership_id, new_membership)
       /\ call' = c
       /\ reply' = ROk(new_group)
       /\ UNCHANGED <<gatewayVars, tutors, sessions, users, messages, learning_metrics,
                      learning_progress, connection_requests, connections, now, pending>>

\* join_study_group that makes the caller an admin
join_study_group_as_admin(caller, group_id) ==
    LET c == ACall("join_study_group", caller, "", "", <<>>)
        membership_id == next_id("group_membership")
        new_membership == GroupMembership(membership_id, caller, group_id, "admin")
    IN IF group_id \notin DOMAIN study_groups
          THEN ReturnEarly(c, RErr("Study group not found."))
       ELSE /\ next_ids' = [next_ids EXCEPT !["group_membership"] = membership_id]
            /\ group_memberships' = Insert(group_memberships, membership_id,
                                           new_membership)
            /\ call' = c
            /\ reply' = ROk(new_membership)
            /\ UNCHANGED <<gatewayVars, tutors, sessions, users, messages, learning_metrics,
                           learning_progress, connection_requests, connections,
                           study_groups, now, pending>>

join_study_group(caller, group_id) ==
    LET c == ACall("join_study_group", caller, "", "", <<>>)
        membership_id == next_id("group_membership")
        new_membership == GroupMembership(membership_id, caller, group_id, "member")
    IN IF group_id \notin DOMAIN study_groups
          THEN ReturnEarly(c, RErr("Study group not found."))
       ELSE /\ next_ids' = [next_ids EXCEPT !["group_membership"] = membership_id]
            /\ group_memberships' = Insert(group_memberships, membership_id,
                                           new_membership)
            /\ call' = c
            /\ reply' = ROk(new_membership)
            /\ UNCHANGED <<gatewayVars, tutors, sessions, users, messages, learning_metrics,
                           learning_progress, connection_requests, connections,
                           study_groups, now, pending>>

\* inputs of the study group handlers
GroupIds == 1..(MaxGroups + 1)

GroupNext ==
    \/ /\ next_ids["study_group"] < MaxGroups
       /\ next_ids["group_membership"] < MaxMemberships
       /\ \E caller \in Principals, is_private \in BOOLEAN :
            create_study_group(caller, <<"g">>, None, is_private, 5, Str("beginner"))
    \/ \E caller \in Principals, group_id \in GroupIds :
            /\ group_id \notin DOMAIN study_groups
               \/ next_ids["group_membership"] < MaxMemberships
            /\ join_study_group(caller, group_id)

GroupSpec == Init /\ [][GroupNext]_vars

----------------------------------------------------------------------------
(* Specification LifecycleSpec: sessions are created, written to and       *)
(* deleted by one user while a call of theirs is suspended at its AI call, *)
(* from a store with that user, one tutor and one session.                 *)

MaxCourses == 1     \* most create_ai_learning_session calls that get past their checks
MaxMessages == 2    \* most message ids send_tutor_message takes

\* a LearningProgress
LearningProgress(id, user_id) ==
    [id |-> id, user_id |-> user_id, session_id |-> 0, course_id |-> 1,
     progress_percentage |-> 0, current_module_id |-> None, current_subtopic |-> None]

\* create_ai_learning_session up to the await of generate_course_outline;
\* the session id is not made before the await returns
create_ai_learning_session(caller, tutor_id, topic) ==
    LET c == ACall("create_ai_learning_session", caller, tutor_id, "", topic)
        ids == OwnedTutorIds(tutor_id, caller)
        tutor == tutors[MinOf(ids)]
    IN IF ids = {}
          THEN ReturnEarly(c, RErr("Tutor not found or you don't have permission to access it"))
       ELSE IF caller \notin DOMAIN users THEN ReturnEarly(c, RErr("User not found"))
       ELSE /\ pending' = Insert(pending, FreeSlot,
                                 [call |-> c, session_id |-> "",
                                  prompt |-> OutlinePrompt(topic, users[caller].settings),
                                  session_history |-> <<>>, tutor |-> tutor])
            /\ call' = c
            /\ reply' = NoReply
            /\ UNCHANGED <<gatewayVars, tableVars, now, next_ids>>

\* create_ai_learning_session from the first await to the second: the
\* session is stored under the host time of this step, then
\* generate_welcome_message is awaited
create_ai_learning_session_outlined(slot, gw) ==
    LET frame == pending[slot]
        c == frame.call
        course_outline == generate_course_outline(frame.tutor, c.topic,
                                                  users[c.caller].settings, gw)
        session_id == SessionIdAt(now)
        session == ChatSession(session_id, c.tutor_id, c.caller, c.topic)
    IN /\ c.op = "create_ai_learning_session"
       /\ frame.session_id = ""
       /\ call' = Resumed(frame)
       /\ IF course_outline.kind = "Err"
          THEN /\ reply' = course_outline
               /\ pending' = Remove(pending, slot)
               /\ UNCHANGED sessions
          ELSE /\ sessions' = Insert(sessions, session_id, session)
               /\ pending' = Insert(pending, slot,
                                    [frame EXCEPT !.session_id = session_id,
                                                  !.prompt = WelcomePrompt(frame.tutor, c.topic)])
               /\ reply' = NoReply
       /\ UNCHANGED <<gatewayVars, tutors, users, messages, learning_metrics, now, next_ids,
                      learning_progress, socialVars>>

\* create_ai_learning_session from the second await on
create_ai_learning_session_resumed(slot, gw) ==
    LET frame == pending[slot]
        welcome_msg == ChatMessage(ToString(now), frame.session_id, "tutor", gw.text)
        progress_id == next_id("learning_progress")
    IN /\ frame.call.op = "create_ai_learning_session"
       /\ frame.session_id # ""
       /\ call' = Resumed(frame)
       /\ pending' = Remove(pending, slot)
       /\ IF gw.kind = "Err"
          THEN /\ reply' = RErr(gw.err)
               /\ UNCHANGED <<messages, learning_progress, next_ids>>
          ELSE /\ messages' = Insert(messages, frame.session_id, <<welcome_msg>>)
               /\ next_ids' = [next_ids EXCEPT !["learning_progress"] = progress_id]
               /\ learning_progress' = Insert(learning_progress, progress_id,
                                              LearningProgress(progress_id, frame.call.caller))
               /\ reply' = ROk(<<frame.session_id, gw.text>>)
       /\ UNCHANGED <<gatewayVars, tutors, sessions, users, learning_metrics, now, socialVars>>

\* the calls of op that are suspended
Suspended(op) == {slot \in DOMAIN pending : pending[slot].call.op = op}

\* a call that suspends is let in while no other call is suspended
MaySuspend == pending = NoTable

\* the user of the store; the tutor and the first session are theirs
Owner == "alice"

LifecycleNext ==
    \/ Tick
    \/ \E public_id \in PublicIds : delete_tutor(Owner, public_id)
    \/ \E session_id \in KnownSessionIds : delete_chat_session(Owner, session_id)
    \/ \E session_id \in KnownSessionIds, content \in Contents :
            /\ \/ SessionCheck(Owner, session_id) # ""
               \/ /\ MaySuspend
                  /\ next_ids["message"] + Cardinality(Suspended("send_tutor_message"))
                        < MaxMessages
            /\ send_tutor_message(Owner, session_id, content)
    \/ \E slot \in DOMAIN pending :
            \E gw \in GatewayResults(pending[slot].prompt) :
                send_tutor_message_resumed(slot, gw)
    \/ \E public_id \in PublicIds :
            /\ MaySuspend
            /\ create_chat_session(Owner, public_id, DefaultTopic)
    \/ \E slot \in DOMAIN pending :
            \E gw \in GatewayResults(pending[slot].prompt) :
                create_chat_session_resumed(slot, gw)
    \/ \E public_id \in PublicIds :
            /\ MaySuspend
            /\ next_ids["learning_progress"]
                  + Cardinality(Suspended("create_ai_learning_session")) < MaxCourses
            /\ create_ai_learning_session(Owner, public_id, DefaultTopic)
    \/ \E slot \in DOMAIN pending :
            \E gw \in GatewayResults(pending[slot].prompt) :
                create_ai_learning_session_outlined(slot, gw)
    \/ \E slot \in DOMAIN pending :
            \E gw \in GatewayResults(pending[slot].prompt) :
                create_ai_learning_session_resumed(slot, gw)

LifecycleSpec == ChatInit /\ [][LifecycleNext]_vars

----------------------------------------------------------------------------
(* Claims about the gateway (Spec, FairSpec)                               *)

Returned == pc = "done"

AllTransportErr(h) == \A i \in 1..Len(h) : h[i].t = "err"
AllNon200(h) == \A i \in 1..Len(h) : h[i].t = "ok" /\ h[i].status # 200

\* C1: when all 3 transport attempts of call_groq_ai fail, it returns Ok
\* with the canned fallback reply that embeds the prompt, never Err.
C1_FallbackAfterTransportFailures ==
    (Returned /\ Len(history) = 3 /\ AllTransportErr(history))
        => (result.kind = "Ok" /\ result.text = FallbackReply(prompt))

\* C4: with transport failures on attempts 1 and 2 and a 200 completion on
\* attempt 3, call_groq_ai has not returned before the third request, makes
\* exactly 3 requests and returns Ok with the content of that response.
C4_ThirdAttemptSucceeds ==
    /\ (Len(history) \in 1..2 /\ AllTransportErr(history)) => ~Returned
    /\ (Returned /\ Len(history) = 3 /\ AllTransportErr(SubSeq(history, 1, 2))
          /\ history[3].t = "ok" /\ history[3].status = 200
          /\ history[3].shape = "completion")
        => (requests = 3 /\ result = Ok(history[3].content)
            /\ result.text # FallbackReply(prompt))

C4_Witness ==
    /\ Returned /\ Len(history) = 3 /\ AllTransportErr(SubSeq(history, 1, 2))
    /\ history[3].t = "ok" /\ history[3].status = 200 /\ history[3].shape = "completion"
    /\ history[3].content # <<>>
    /\ result.kind = "Ok"

C6_BoundedRequestsAndTermination ==
    /\ [](requests <= 3)
    /\ [](Returned => (requests \in 1..3 /\ requests = Len(history)
                       /\ result.kind \in {"Ok", "Err"}))
    /\ ((pc = "request") ~> Returned)

C6_Witness ==
    /\ Returned /\ requests = 3
    /\ history[1].t = "err" /\ history[2].t = "ok" /\ history[2].status # 200
    /\ history[3].t = "ok" /\ history[3].status = 200 /\ history[3].shape = "no_content"

\* the runs that differ from h only in the consensus marks of the
\* transport errors
ConsensusVariants(h) ==
    {v \in [1..Len(h) -> {h[i] : i \in 1..Len(h)} \cup {TransportErr(c) : c \in BOOLEAN}] :
        \A i \in 1..Len(h) :
            IF h[i].t = "err" THEN v[i].t = "err" ELSE v[i] = h[i]}

\* C7: two runs that see the same per-attempt outcomes and differ only in
\* whether the transport error messages name a consensus error make the
\* same number of attempts and return the same kind of result.
C7_ConsensusCheckIsInert ==
    Returned =>
        \A v \in ConsensusVariants(history) :
            LET other == call_groq_ai(prompt, v)
            IN other.used = requests /\ other.res.kind = result.kind

C7_Witness ==
    /\ Returned /\ Len(history) = 3
    /\ history[1] = TransportErr(TRUE) /\ history[2] = TransportErr(FALSE)
    /\ history[3] = TransportErr(FALSE)
    /\ result.kind = "Err"

----------------------------------------------------------------------------
(* Claims about the parsers and the AI handlers (HandlerSpec)              *)

\* the handler call got its AI text: call_groq_ai ran and returned Ok
GatewayOk == pc = "done" /\ result.kind = "Ok"

ExposedAiHandlers ==
    {"get_ai_topic_suggestions", "validate_ai_topic", "generate_ai_course_outline",
     "generate_course_modules"}

\* C2: whenever call_groq_ai returned Ok, get_ai_topic_suggestions,
\* validate_ai_topic, generate_ai_course_outline and generate_course_modules
\* return Ok (the parsed value or the synthesized fallback), whatever the
\* AI text is.
C2_MalformedTextNeverSurfaces ==
    (call.op \in ExposedAiHandlers /\ GatewayOk) => reply.kind = "Ok"

\* what each strategy of generate_course_modules yields on its own
SliceTitles(text) ==
    LET start == Find(text, LB)
        end == RFind(text, RB)
    IN IF start # 0 /\ end # 0 /\ start <= end + 1
       THEN ParseVecString(SubSeq(text, start, end))
       ELSE ParseFail

NoTitleExtractable(text) ==
    /\ ParseVecString(text).val = <<>>
    /\ ParseVecString(CleanResponse(text)).val = <<>>
    /\ SliceTitles(text).val = <<>>
    /\ LineTitles(Lines(text)) = <<>>

\* C3: in generate_course_modules, for an AI text from which no strategy
\* extracts a title, the result is Ok with exactly the 5 templated titles
\* of the session's topic, in order.
C3_FiveTemplatedTitles ==
    (call.op = "generate_course_modules" /\ GatewayOk /\ NoTitleExtractable(result.text))
        => /\ reply.kind = "Ok"
           /\ Len(reply.val) = 5
           /\ reply.val = FallbackModules(sessions[call.session_id].topic)

AllStrategies == <<"direct", "clean", "slice", "lines">>
WasTried(strategy) == \E i \in 1..Len(reply.tried) : reply.tried[i] = strategy

\* C8: in generate_course_modules the strategies run in the order direct,
\* clean, slice, lines, and each later one runs whenever all earlier ones
\* failed; in particular the per-line strategy runs when the slice
\* strategy failed.
C8_StrategiesFallThrough ==
    (call.op = "generate_course_modules" /\ GatewayOk)
        => LET text == result.text
               directFailed == ~ParseVecString(text).ok
               cleanFailed == ~ParseVecString(CleanResponse(text)).ok
               sliceFailed == ~SliceTitles(text).ok
           IN /\ reply.tried = SubSeq(AllStrategies, 1, Len(reply.tried))
              /\ directFailed => WasTried("clean")
              /\ (directFailed /\ cleanFailed) => WasTried("slice")
              /\ (directFailed /\ cleanFailed /\ sliceFailed) => WasTried("lines")

\* the tutor a call names
CalledTutor == tutors[MinOf(TutorIdsByPublicId(call.tutor_id))]

\* C9: in generate_topic_suggestions, for an AI text that does not parse as
\* an array of topic suggestions and a tutor with tags t1..tn, the result
\* is Ok with exactly min(3, n) suggestions, the i-th titled
\* "Introduction to {ti}" with expertise_area ti.
C9_SuggestionFallback ==
    (call.op = "generate_topic_suggestions" /\ GatewayOk
       /\ ~ParseVecTopicSuggestion(result.text).ok)
        => LET tags == CalledTutor.expertise
               n == IF Len(tags) < 3 THEN Len(tags) ELSE 3
           IN /\ reply.kind = "Ok"
              /\ Len(reply.val) = n
              /\ \A i \in 1..n :
                    /\ reply.val[i].topic = <<"Introduction to ">> \o tags[i]
                    /\ reply.val[i].expertise_area = tags[i]

C9_Witness ==
    /\ call.op = "generate_topic_suggestions" /\ GatewayOk
    /\ ~ParseVecTopicSuggestion(result.text).ok
    /\ Len(CalledTutor.expertise) = 4
    /\ CalledTutor.expertise[1] # CalledTutor.expertise[2]
    /\ Len(reply.val) = 3

\* case-insensitive containment, letter by letter
SameLetter(c, d) == c = d \/ {c, d} = {"a", "A"} \/ {c, d} = {"b", "B"}

OccursIgnoringCase(tag, topic) ==
    \E k \in 0..(Len(topic) - Len(tag)) :
        \A j \in 1..Len(tag) : SameLetter(topic[k + j], tag[j])

\* C10: in validate_topic, for an AI text that does not parse as a topic
\* validation, is_relevant = true and confidence = 0.7 exactly when the
\* topic contains one of the tutor's tags ignoring case, and
\* is_relevant = false and confidence = 0.3 otherwise.
C10_ValidationFallback ==
    (call.op = "validate_ai_topic" /\ GatewayOk /\ ~ParseTopicValidation(result.text).ok)
        => LET tags == CalledTutor.expertise
               matches == \E i \in 1..Len(tags) : OccursIgnoringCase(tags[i], call.topic)
           IN /\ reply.kind = "Ok"
              /\ matches => (reply.val.is_relevant /\ reply.val.confidence = 7)
              /\ ~matches => (~reply.val.is_relevant /\ reply.val.confidence = 3)

C10_Witness ==
    /\ call.op = "validate_ai_topic" /\ GatewayOk
    /\ ~ParseTopicValidation(result.text).ok
    /\ call.topic = <<"A", "b">>
    /\ CalledTutor.expertise = << <<"a", "B">> >>
    /\ reply.val.is_relevant /\ reply.val.confidence = 7

\* C11: in generate_course_outline, for an AI text that does not parse as a
\* course outline, the result is Ok with an outline titled
\* "Course on {topic}" that has exactly one module and whose
\* difficulty_level is the difficulty_level of the caller's user settings.
C11_OutlineFallback ==
    (call.op = "generate_ai_course_outline" /\ GatewayOk
       /\ ~ParseCourseOutline(result.text).ok)
        => /\ reply.kind = "Ok"
           /\ reply.val.title = <<"Course on ">> \o call.topic
           /\ Len(reply.val.modules) = 1
           /\ reply.val.difficulty_level = users[call.caller].settings.difficulty_level

C11_Witness ==
    /\ call.op = "generate_ai_course_outline" /\ GatewayOk
    /\ ~ParseCourseOutline(result.text).ok
    /\ call.topic = <<"A", "b">>
    /\ users[call.caller].settings.difficulty_level = <<"beginner">>
    /\ reply.val.title = <<"Course on ", "A", "b">>
    /\ reply.val.difficulty_level = <<"beginner">>

----------------------------------------------------------------------------
(* Claims about the tutor handlers (TutorSpec)                             *)

\* the step is one in which a handler ran
HandlerStep == call'.seq # call.seq

\* the step is the first step of a call of op
StartOf(op) ==
    HandlerStep /\ call'.op = op /\ DOMAIN pending \subseteq DOMAIN pending'

\* C13: after any sequence of create_tutor, update_tutor, toggle_tutor_pin
\* and delete_tutor calls, successful or failing, every stored tutor has a
\* name, description, teaching_style and personality that are non-empty
\* after trimming, and at least one expertise tag.
C13_TutorFieldsValid ==
    \A id \in DOMAIN tutors :
        /\ Trim(tutors[id].name) # <<>>
        /\ Trim(tutors[id].description) # <<>>
        /\ Trim(tutors[id].teaching_style) # <<>>
        /\ Trim(tutors[id].personality) # <<>>
        /\ Len(tutors[id].expertise) >= 1

C13_Witness ==
    /\ call.op = "update_tutor" /\ reply.kind = "Err"
    /\ reply.err = "Personality cannot be empty"
    /\ \E id \in DOMAIN tutors :
          /\ tutors[id].public_id = call.tutor_id
          /\ tutors[id].name = <<"m">>
          /\ tutors[id].is_pinned

TutorMutators == {"update_tutor", "delete_tutor", "toggle_tutor_pin"}

\* C14: update_tutor, delete_tutor and toggle_tutor_pin change or remove a
\* tutor only when the caller is that tutor's user_id; called by any other
\* principal with the tutor's public_id they return an error and leave the
\* tutor table unchanged.
C14_OwnerOnlyTutorChanges ==
    [][\A id \in DOMAIN tutors :
          (HandlerStep /\ call'.op \in TutorMutators)
            => /\ (id \notin DOMAIN tutors' \/ tutors'[id] # tutors[id])
                    => call'.caller = tutors[id].user_id
               /\ (call'.tutor_id = tutors[id].public_id
                      /\ call'.caller # tutors[id].user_id)
                    => (reply'.kind = "Err" /\ tutors' = tutors)]_vars

\* C20: in every reachable state no two stored tutors share a public_id,
\* also when they were created by calls that saw the same host time.
C20_PublicIdsUnique ==
    \A i, j \in DOMAIN tutors : i # j => tutors[i].public_id # tutors[j].public_id

----------------------------------------------------------------------------
(* Claims about chat sessions (SessionSpec)                                *)

\* C16: a successful delete_tutor removes exactly the one matching tutor and
\* leaves the chat-session and chat-message tables unchanged; the sessions
\* whose tutor_id names the deleted tutor stay stored and get_chat_session
\* still returns them to their owner.
C16_DeleteTutorNoCascade ==
    [][(StartOf("delete_tutor") /\ reply'.kind = "Ok")
          => /\ \E id \in DOMAIN tutors :
                    /\ tutors[id].public_id = call'.tutor_id
                    /\ tutors[id].user_id = call'.caller
                    /\ tutors' = Remove(tutors, id)
             /\ sessions' = sessions
             /\ messages' = messages
             /\ \A sid \in DOMAIN sessions :
                    sessions[sid].tutor_id = call'.tutor_id
                      => ChatSessionIn(sessions', sessions[sid].user_id, sid)
                            = ROk(sessions[sid])]_vars

C16_Witness ==
    /\ call.op = "delete_tutor" /\ reply.kind = "Ok"
    /\ Cardinality(DOMAIN tutors) = 1
    /\ \E sid \in DOMAIN sessions :
          /\ sessions[sid].tutor_id = call.tutor_id
          /\ TutorIdsByPublicId(sessions[sid].tutor_id) = {}
          /\ sid \in DOMAIN messages

\* C19: create_chat_session stores a session only when a tutor with the
\* given public_id exists and belongs to the caller; otherwise it returns
\* an error and no session is stored.
C19_SessionOnlyWithOwnTutor ==
    [][(StartOf("create_chat_session") /\ OwnedTutorIds(call'.tutor_id, call'.caller) = {})
          => (reply'.kind = "Err" /\ sessions' = sessions)]_vars

----------------------------------------------------------------------------
(* Claims about repeated handler calls (RerunSpec)                         *)

\* the AI text that the parser of handler op rejects
Malformed(op, text) ==
    CASE op = "generate_topic_suggestions" -> ~ParseVecTopicSuggestion(text).ok
      [] op = "validate_ai_topic" -> ~ParseTopicValidation(text).ok
      [] op = "generate_ai_course_outline" -> ~ParseCourseOutline(text).ok
      [] op = "generate_course_modules" -> ~ParseVecString(text).ok
      [] OTHER -> FALSE

\* this step repeats the call made last: the same handler, the same
\* arguments, the same prompt (it carries the tutor's expertise, the topic
\* and the difficulty) and the same answer of the gateway
RepeatsLastCall ==
    /\ HandlerStep
    /\ [call' EXCEPT !.seq = 0] = [call EXCEPT !.seq = 0]
    /\ prompt' = prompt
    /\ result' = result

\* C12: two runs of generate_topic_suggestions, generate_course_outline,
\* validate_topic or generate_course_modules that get the same malformed AI
\* text and the same inputs return the same result, whatever the clock, the
\* id counters and the tutor table have become in between.
C12_FallbacksDeterministic ==
    [][(RepeatsLastCall /\ result.kind = "Ok" /\ Malformed(call.op, result.text))
         => reply' = reply]_vars

\* the outline fallback has been returned twice, the second time at a later
\* host time and with one more tutor stored and one more id handed out
C12_Witness ==
    /\ call.op = "generate_ai_course_outline"
    /\ call.seq = 0
    /\ result.kind = "Ok"
    /\ Malformed(call.op, result.text)
    /\ reply.kind = "Ok"
    /\ now > 1
    /\ next_ids["tutor"] > 1
    /\ Cardinality(DOMAIN tutors) > 1

----------------------------------------------------------------------------
(* Claims about the user table (UserSpec)                                  *)

\* C15: a handler call that changes a stored user record is made by the
\* caller whose principal is the record's id.
C15_UsersChangedByOwnerOnly ==
    [][HandlerStep =>
         \A u \in DOMAIN users :
            (u \in DOMAIN users' /\ users'[u] # users[u]) => call'.caller = users[u].id]_vars

----------------------------------------------------------------------------
(* Claims about the messages of a chat session (ChatSpec, AccessSpec)      *)

SendOps == {"send_tutor_message", "send_ai_tutor_message"}

\* the messages table holds under session_id
StoredIn(table, session_id) ==
    IF session_id \in DOMAIN table
    THEN {table[session_id][i] : i \in 1..Len(table[session_id])}
    ELSE {}

\* the step in which a suspended message-sending call returns Ok
SendReturnsOk ==
    /\ HandlerStep
    /\ call'.op \in SendOps
    /\ DOMAIN pending' # DOMAIN pending
    /\ DOMAIN pending' \subseteq DOMAIN pending
    /\ reply'.kind = "Ok"

\* C17: when a message-sending call returns Ok, the session's list holds
\* its user message and its tutor reply, and still holds every tutor reply
\* stored before: the replies of the calls that returned Ok while this one
\* was suspended are not lost.
C17_NoMessageLost ==
    [][SendReturnsOk =>
         LET before == StoredIn(messages, call'.session_id)
             after == StoredIn(messages', call'.session_id)
         IN /\ \E m \in after : m.sender = "user" /\ m.content = call'.topic
            /\ \E m \in after : m.sender = "tutor" /\ m \notin before
            /\ \A m \in before : m.sender = "tutor" => m \in after]_vars

SessionScoped ==
    {"get_session_messages", "get_chat_session", "get_session_progress",
     "send_tutor_message", "send_ai_tutor_message", "generate_course_modules",
     "delete_chat_session"}

PermissionErrors ==
    {"You don't have permission to access this session",
     "You don't have permission to delete this session"}

\* C18: a session-scoped handler called by a principal other than the
\* session's user_id returns a permission error and no data, and leaves the
\* session table and the message table as they were.
C18_StrangerGetsPermissionError ==
    [][\A op \in SessionScoped :
         (/\ StartOf(op)
          /\ call'.session_id \in DOMAIN sessions
          /\ sessions[call'.session_id].user_id # call'.caller)
         => /\ reply'.kind = "Err"
            /\ reply'.err \in PermissionErrors
            /\ reply'.val = <<>>
            /\ sessions' = sessions
            /\ messages' = messages]_vars

\* bob has asked for the messages of alice's session, which by then held
\* more than the welcome message, and got the permission error
C18_Witness ==
    /\ call.op = "get_session_messages"
    /\ call.caller = "bob"
    /\ call.session_id \in DOMAIN sessions
    /\ sessions[call.session_id].user_id = "alice"
    /\ Len(messages[call.session_id]) > 1
    /\ reply.kind = "Err"
    /\ reply.err \in PermissionErrors

----------------------------------------------------------------------------
(* Claims about connections (ConnectionSpec)                               *)

\* the step is a call of accept_connection_request that returns Ok
AcceptReturnsOk ==
    HandlerStep /\ call'.op = "accept_connection_request" /\ reply'.kind = "Ok"

\* the step accepts request request_id for call'.caller and adds one
\* connection between the request's sender and receiver, and nothing else
AcceptsRequest(request_id) ==
    LET request == connection_requests[request_id]
    IN /\ request.receiver_id = call'.caller
       /\ request.status = "pending"
       /\ DOMAIN connection_requests' = DOMAIN connection_requests
       /\ \A id \in DOMAIN connection_requests :
            /\ connection_requests'[id].status =
                    IF id = request_id THEN "accepted" ELSE connection_requests[id].status
            /\ connection_requests'[id].sender_id = connection_requests[id].sender_id
            /\ connection_requests'[id].receiver_id = connection_requests[id].receiver_id
       /\ \E connection_id \in DOMAIN connections' \ DOMAIN connections :
            /\ DOMAIN connections' = DOMAIN connections \cup {connection_id}
            /\ connections'[connection_id].user1_id = request.sender_id
            /\ connections'[connection_id].user2_id = request.receiver_id
            /\ \A id \in DOMAIN connections : connections'[id] = connections[id]

AcceptedRequests ==
    {id \in DOMAIN connection_requests : connection_requests[id].status = "accepted"}

\* C21: accept_connection_request returns Ok only to the receiver of a
\* pending request; the request becomes accepted and one connection
\* between its sender and its receiver is created.  An accepted request is
\* never pending again, and there are as many connections as accepted
\* requests: a request is accepted at most once and yields one connection.
C21_AcceptOnceByReceiver ==
    /\ [](Cardinality(DOMAIN connections) = Cardinality(AcceptedRequests))
    /\ [][/\ AcceptReturnsOk =>
                \E request_id \in DOMAIN connection_requests : AcceptsRequest(request_id)
          /\ \A id \in AcceptedRequests :
                id \in DOMAIN connection_requests'
                /\ connection_requests'[id].status = "accepted"]_vars

\* two requests from alice to bob have been accepted, the second one in
\* the call made last, and a later call for an accepted request was refused
C21_Witness ==
    /\ Cardinality(AcceptedRequests) = 2
    /\ Cardinality(DOMAIN connections) = 2
    /\ \A id \in AcceptedRequests :
            /\ connection_requests[id].sender_id = "alice"
            /\ connection_requests[id].receiver_id = "bob"
    /\ call.op = "accept_connection_request"
    /\ call.caller = "bob"
    /\ reply.kind = "Err"
    /\ reply.err = "This request is no longer pending."

----------------------------------------------------------------------------
(* Claims about study groups (GroupSpec)                                   *)

\* the memberships of group group_id with role role
MembershipsOf(group_id, role) ==
    {id \in DOMAIN group_memberships :
        /\ group_memberships[id].group_id = group_id
        /\ group_memberships[id].role = role}

\* C22: every stored study group has exactly one membership with role
\* "admin", and it belongs to the group's creator_id; every membership
\* refers to a stored group; a membership added by join_study_group has
\* role "member".
C22_CreatorIsTheOnlyAdmin ==
    /\ [](\A group_id \in DOMAIN study_groups :
            /\ Cardinality(MembershipsOf(group_id, "admin")) = 1
            /\ \A id \in MembershipsOf(group_id, "admin") :
                 group_memberships[id].user_id = study_groups[group_id].creator_id)
    /\ [](\A id \in DOMAIN group_memberships :
            group_memberships[id].group_id \in DOMAIN study_groups)
    /\ [][(HandlerStep /\ call'.op = "join_study_group") =>
            \A id \in DOMAIN group_memberships' \ DOMAIN group_memberships :
                /\ group_memberships'[id].role = "member"
                /\ group_memberships'[id].user_id = call'.caller
                /\ group_memberships'[id].group_id \in DOMAIN study_groups]_vars

\* alice's group has been joined by bob and by alice herself
C22_Witness ==
    \E group_id \in DOMAIN study_groups :
        /\ study_groups[group_id].creator_id = "alice"
        /\ Cardinality(MembershipsOf(group_id, "admin")) = 1
        /\ {group_memberships[id].user_id : id \in MembershipsOf(group_id, "member")}
                = {"alice", "bob"}
        /\ call.op = "join_study_group"
        /\ reply.kind = "Ok"

----------------------------------------------------------------------------
(* Claims about the life of a session (LifecycleSpec)                      *)

\* C23: in every reachable state, also when delete_chat_session runs while
\* send_tutor_message, create_chat_session or create_ai_learning_session
\* is suspended at its AI call, the chat-message table holds an entry only
\* for session ids that are keys of the chat-session table.
C23_MessagesOnlyForStoredSessions == DOMAIN messages \subseteq DOMAIN sessions


\* the step is a step of send_tutor_message that changes the message table
SendStores == HandlerStep /\ call'.op = "send_tutor_message" /\ messages' # messages

\* the gateway can answer the call that the step suspends with an error
MayStillFail ==
    \E slot \in DOMAIN pending' \ DOMAIN pending :
        \E gw \in GatewayResults(pending'[slot].prompt) : gw.kind = "Err"

\* C24: a send_tutor_message call that returns an error (session missing,
\* caller not the owner, tutor not found, error of the gateway) leaves the
\* chat-message table as it was before the call: a step of the call that
\* changes the table does not return an error, and the call it suspends
\* cannot be answered with one, so that no user message stays stored
\* without its tutor reply.
C24_ErrorLeavesMessagesUnchanged ==
    [][SendStores => reply'.kind # "Err" /\ ~MayStillFail]_vars


CreateOps == {"create_chat_session", "create_ai_learning_session"}

\* the step is the step of a session-creating call that stores the session:
\* the call suspended in slot has its session id from this step
StoresSession(slot) ==
    /\ HandlerStep
    /\ call'.op \in CreateOps
    /\ pending'[slot].call.op = call'.op
    /\ pending'[slot].session_id # ""
    /\ slot \notin DOMAIN pending \/ pending[slot].session_id = ""

\* C25: a create_chat_session or create_ai_learning_session call that
\* succeeds never replaces a stored session, also when two calls see the
\* same host time: a call that stores its session under an id that was
\* already a key of the chat-session table cannot be answered by the
\* gateway so that it returns Ok.
C25_CreateNeverReplaces ==
    [][\A slot \in DOMAIN pending' :
            StoresSession(slot) /\ pending'[slot].session_id \in DOMAIN sessions
                => \A gw \in GatewayResults(pending'[slot].prompt) : gw.kind = "Err"]_vars


====
